---- MODULE Spec2Model ----
(***************************************************************************)
(* Extraction-and-consolidation pipeline of botsintese.py.                 *)
(*                                                                         *)
(* Python strings are sequences of Unicode code points (Latin-1 range), so *)
(* that case folding, accent stripping, prefix keys and substring tests    *)
(* are computed as the code computes them.  Every string literal carries   *)
(* its text in a trailing comment.  Wall-clock time is in whole seconds.   *)
(***************************************************************************)
EXTENDS Integers, Sequences, FiniteSets, TLC

(***************************************************************************)
(* Python str primitives used by the code                                  *)
(***************************************************************************)

\* str.isspace for one character (the whitespace str.strip/str.split drop)
IsSpace(c) == c \in {9, 10, 11, 12, 13, 32}

\* str.lower for one character, Latin-1 range
LowerChar(c) ==
  IF (c >= 65 /\ c <= 90) \/ (c >= 192 /\ c <= 222 /\ c # 215) THEN c + 32 ELSE c

\* str.upper for one character, Latin-1 range
UpperChar(c) ==
  IF (c >= 97 /\ c <= 122) \/ (c >= 224 /\ c <= 254 /\ c # 247) THEN c - 32 ELSE c

\* a sequence given by a function on 1..n, as a tuple
Seq1(f) == SubSeq(f, 1, Len(f))

Lower(s) == Seq1([i \in 1..Len(s) |-> LowerChar(s[i])])

Upper(s) == Seq1([i \in 1..Len(s) |-> UpperChar(s[i])])

\* unicodedata.normalize('NFKD', c) with the combining marks removed
SemAcento(c) ==
  CASE c \in 192..197 -> 65
    [] c = 199 -> 67
    [] c \in 200..203 -> 69
    [] c \in 204..207 -> 73
    [] c = 209 -> 78
    [] c \in 210..214 -> 79
    [] c \in 217..220 -> 85
    [] c = 221 -> 89
    [] c \in 224..229 -> 97
    [] c = 231 -> 99
    [] c \in 232..235 -> 101
    [] c \in 236..239 -> 105
    [] c = 241 -> 110
    [] c \in 242..246 -> 111
    [] c \in 249..252 -> 117
    [] c \in {253, 255} -> 121
    [] c = 160 -> 32
    [] OTHER -> c

Min(a, b) == IF a <= b THEN a ELSE b

\* s[:n]
Take(s, n) == SubSeq(s, 1, Min(n, Len(s)))


\* s.startswith(t)
StartsWith(s, t) == Len(t) <= Len(s) /\ SubSeq(s, 1, Len(t)) = t

\* t in s
Contains(s, t) == \E i \in 0..(Len(s) - Len(t)) : SubSeq(s, i + 1, i + Len(t)) = t

MinDe(S) == CHOOSE x \in S : \A y \in S : x <= y

MaxDe(S) == CHOOSE x \in S : \A y \in S : x >= y

\* the j-th smallest element of a set of integers
Enesimo(S, j) == CHOOSE x \in S : Cardinality({y \in S : y < x}) = j - 1

\* s.strip(): from the first to the last non-whitespace character
Strip(s) ==
  LET visiveis == {p \in 1..Len(s) : ~IsSpace(s[p])}
  IN  IF visiveis = {} THEN <<>> ELSE SubSeq(s, MinDe(visiveis), MaxDe(visiveis))

\* s.replace(old, new): left to right, non-overlapping (old is never empty here);
\* the first occurrence is replaced, then the text after it
RECURSIVE Replace(_, _, _)
Replace(s, old, new) ==
  IF ~Contains(s, old) THEN s
  ELSE LET p == MinDe({q \in 1..(Len(s) - Len(old) + 1) :
                          SubSeq(s, q, q + Len(old) - 1) = old})
       IN  SubSeq(s, 1, p - 1) \o new
             \o Replace(SubSeq(s, p + Len(old), Len(s)), old, new)

\* s.split(): the maximal runs of non-whitespace characters
Split(s) ==
  LET n == Len(s)
      inicios == {p \in 1..n : ~IsSpace(s[p]) /\ (p = 1 \/ IsSpace(s[p - 1]))}
      fins == {p \in 1..n : ~IsSpace(s[p]) /\ (p = n \/ IsSpace(s[p + 1]))}
  IN  Seq1([j \in 1..Cardinality(inicios) |->
               SubSeq(s, Enesimo(inicios, j), Enesimo(fins, j))])

\* s.split(sep) for a one-character separator: empty fields are kept
SplitOn(s, sep) ==
  LET n == Len(s)
      cortes == {p \in 1..n : s[p] = sep}
      m == Cardinality(cortes)
  IN  Seq1([j \in 1..(m + 1) |->
               SubSeq(s, IF j = 1 THEN 1 ELSE Enesimo(cortes, j - 1) + 1,
                         IF j = m + 1 THEN n ELSE Enesimo(cortes, j) - 1)])

\* sep.join(words)
RECURSIVE Join(_, _)
Join(words, sep) ==
  IF words = <<>> THEN <<>>
  ELSE IF Len(words) = 1 THEN words[1]
  ELSE words[1] \o sep \o Join(Tail(words), sep)

IsDigit(c) == c >= 48 /\ c <= 57

RECURSIVE DigitsValue(_, _)
DigitsValue(s, acc) ==
  IF s = <<>> THEN acc ELSE DigitsValue(Tail(s), acc * 10 + (Head(s) - 48))

\* int(s) succeeds: optional surrounding whitespace, optional sign, digits
IntOk(s) ==
  LET t == Strip(s)
      u == IF t # <<>> /\ Head(t) \in {43, 45} THEN Tail(t) ELSE t
  IN  u # <<>> /\ \A i \in 1..Len(u) : IsDigit(u[i])

\* int(s), for s with IntOk(s)
IntValue(s) ==
  LET t == Strip(s)
      neg == t # <<>> /\ Head(t) = 45
      u == IF t # <<>> /\ Head(t) \in {43, 45} THEN Tail(t) ELSE t
  IN  IF neg THEN 0 - DigitsValue(u, 0) ELSE DigitsValue(u, 0)

(***************************************************************************)
(* Normalisation and cleaning                                              *)
(***************************************************************************)

\* the corporate suffixes normalizar_nome removes, in the code's order
sufixos ==
  <<
    <<32,76,84,68,65,46>>,  \* ' LTDA.'
    <<32,76,84,68,65>>,  \* ' LTDA'
    <<32,83,47,65>>,  \* ' S/A'
    <<32,83,46,65,46>>,  \* ' S.A.'
    <<32,83,46,65>>,  \* ' S.A'
    <<32,69,80,80>>,  \* ' EPP'
    <<32,77,69>>,  \* ' ME'
    <<32,69,73,82,69,76,73>>,  \* ' EIRELI'
    <<32,83,79,67,73,69,68,65,68,69,32,83,73,77,80,76,69,83>>  \* ' SOCIEDADE SIMPLES'
  >>

\* phrases that mark an event as noise
termos_irrelevantes ==
  <<
    <<97,115,115,105,110,97,100,111,32,101,108,101,116,114,111,110,105,99,97,109,101,110,116,101>>,  \* 'assinado eletronicamente'
    <<97,115,115,105,110,97,116,117,114,97,32,101,108,101,116,114,244,110,105,99,97>>,  \* 'assinatura eletrônica'
    <<100,111,99,117,109,101,110,116,111,32,97,115,115,105,110,97,100,111>>,  \* 'documento assinado'
    <<99,111,110,99,108,117,115,111,32,112,97,114,97,32,97,115,115,105,110,97,116,117,114,97>>,  \* 'concluso para assinatura'
    <<99,111,110,99,108,117,115,111,115,32,112,97,114,97>>,  \* 'conclusos para'
    <<114,101,109,101,116,105,100,111,32,112,97,114,97>>,  \* 'remetido para'
    <<106,117,110,116,97,100,97,32,97,117,116,111,109,225,116,105,99,97>>,  \* 'juntada automática'
    <<99,101,114,116,105,100,227,111,32,100,101,32,112,117,98,108,105,99,97,231,227,111>>,  \* 'certidão de publicação'
    <<118,105,115,116,97,32,97,111>>,  \* 'vista ao'
    <<97,117,116,111,115,32,114,101,99,101,98,105,100,111,115>>,  \* 'autos recebidos'
    <<97,103,117,97,114,100,97,110,100,111>>,  \* 'aguardando'
    <<101,120,112,101,100,105,101,110,116,101,32,102,111,114,101,110,115,101>>,  \* 'expediente forense'
    <<110,227,111,32,104,111,117,118,101,32,101,120,112,101,100,105,101,110,116,101>>,  \* 'não houve expediente'
    <<102,101,114,105,97,100,111>>,  \* 'feriado'
    <<114,101,99,101,115,115,111>>,  \* 'recesso'
    <<112,111,114,116,97,114,105,97,32,99,111,110,106,117,110,116,97>>  \* 'portaria conjunta'
  >>

\* keywords that mark an event as factual
termos_faticos ==
  <<
    <<99,111,110,116,114,97,116,111>>,  \* 'contrato'
    <<112,97,103,97,109,101,110,116,111>>,  \* 'pagamento'
    <<112,97,103,111>>,  \* 'pago'
    <<98,111,108,101,116,111>>,  \* 'boleto'
    <<112,97,114,99,101,108,97>>,  \* 'parcela'
    <<112,114,111,116,101,115,116,111>>,  \* 'protesto'
    <<110,101,103,97,116,105,118,97,231,227,111>>,  \* 'negativação'
    <<115,101,114,97,115,97>>,  \* 'serasa'
    <<115,112,99>>,  \* 'spc'
    <<99,97,100,97,115,116,114,111>>,  \* 'cadastro'
    <<119,104,97,116,115,97,112,112>>,  \* 'whatsapp'
    <<109,101,110,115,97,103,101,109>>,  \* 'mensagem'
    <<101,109,97,105,108>>,  \* 'email'
    <<110,111,116,105,102,105,99,97,231,227,111,32,101,120,116,114,97,106,117,100,105,99,105,97,108>>,  \* 'notificação extrajudicial'
    <<114,101,110,101,103,111,99,105,97,231,227,111>>,  \* 'renegociação'
    <<97,99,111,114,100,111>>,  \* 'acordo'
    <<116,114,97,116,97,109,101,110,116,111>>,  \* 'tratamento'
    <<115,101,114,118,105,231,111>>,  \* 'serviço'
    <<101,109,105,115,115,227,111>>,  \* 'emissão'
    <<118,101,110,99,105,109,101,110,116,111>>,  \* 'vencimento'
    <<112,114,101,115,116,97,231,227,111>>  \* 'prestação'
  >>

RECURSIVE RemoveSufixos(_, _)
RemoveSufixos(s, i) ==
  IF s = <<>> \/ i > Len(sufixos) THEN s
  ELSE RemoveSufixos(Replace(s, sufixos[i], <<>>), i + 1)

\* mutant of normalizar_nome: the upper-casing step is left out
normalizar_nome_sem_upper(nome) ==
  IF nome = <<>> THEN <<>>
  ELSE LET sem == Seq1([i \in 1..Len(nome) |-> SemAcento(nome[i])])
       IN  Join(Split(RemoveSufixos(Strip(sem), 1)), <<32>>)

normalizar_nome(nome) ==
  IF nome = <<>> THEN <<>>
  ELSE LET sem == Seq1([i \in 1..Len(nome) |-> SemAcento(nome[i])])
           maiusculas == Strip(Upper(sem))
           sem_sufixos == RemoveSufixos(maiusculas, 1)
       IN  Join(Split(sem_sufixos), <<32>>)

\* dd/mm/aaaa -> <<aaaa, mm, dd>>; <<0, 0, 0>> when empty or unparseable
parse_data_brasileira(data_str) ==
  IF data_str = <<>> THEN <<0, 0, 0>>
  ELSE LET partes == SplitOn(Strip(data_str), 47)
       IN  IF Len(partes) = 3 /\ IntOk(partes[3]) /\ IntOk(partes[2]) /\ IntOk(partes[1])
           THEN <<IntValue(partes[3]), IntValue(partes[2]), IntValue(partes[1])>>
           ELSE <<0, 0, 0>>

\* mutant of is_evento_relevante: the description is not lower-cased first
is_evento_relevante_sem_lower(descricao) ==
  /\ descricao # <<>>
  /\ \A i \in 1..Len(termos_irrelevantes) : ~Contains(descricao, termos_irrelevantes[i])

is_evento_relevante(descricao) ==
  LET desc_lower == Lower(descricao)
  IN  /\ descricao # <<>>
      /\ \A i \in 1..Len(termos_irrelevantes) : ~Contains(desc_lower, termos_irrelevantes[i])

categorizar_evento(descricao) ==
  IF descricao = <<>> THEN "processual"
  ELSE LET desc_lower == Lower(descricao)
       IN  IF \E i \in 1..Len(termos_faticos) : Contains(desc_lower, termos_faticos[i])
           THEN "fatico"
           ELSE "processual"

(***************************************************************************)
(* deduplicar_valores                                                      *)
(***************************************************************************)

\* re.sub(r'[^\d,.]', '', valor).replace('.', '').replace(',', '.')
ValorNum(valor) ==
  LET so_numerico == SelectSeq(valor, LAMBDA c : IsDigit(c) \/ c = 44 \/ c = 46)
      sem_pontos == SelectSeq(so_numerico, LAMBDA c : c # 46)
  IN  Seq1([i \in 1..Len(sem_pontos) |-> IF sem_pontos[i] = 44 THEN 46 ELSE sem_pontos[i]])

\* float(valor_num) succeeds: digits with at most one '.', at least one digit
FloatOk(valor_num) ==
  LET campos == SplitOn(valor_num, 46)
  IN  /\ Len(campos) <= 2
      /\ \E i \in 1..Len(valor_num) : IsDigit(valor_num[i])

\* f"{float(valor_num):.2f}" as a number of hundredths.  The third decimal
\* digit rounds to nearest; an exact decimal tie (third digit 5, nothing
\* after it) follows the binary float and is outside the values used here.
Centavos(valor_num) ==
  LET campos == SplitOn(valor_num, 46)
      inteiro == DigitsValue(campos[1], 0)
      frac == IF Len(campos) = 2 THEN campos[2] ELSE <<>>
      d1 == IF Len(frac) >= 1 THEN frac[1] - 48 ELSE 0
      d2 == IF Len(frac) >= 2 THEN frac[2] - 48 ELSE 0
      d3 == IF Len(frac) >= 3 THEN frac[3] - 48 ELSE 0
  IN  inteiro * 100 + d1 * 10 + d2 + (IF d3 >= 5 THEN 1 ELSE 0)

\* valor_float of lines 563-567, as hundredths: 0 when empty or unparseable
ValorFloat(valor) ==
  LET valor_num == ValorNum(valor)
  IN  IF valor_num # <<>> /\ FloatOk(valor_num) THEN Centavos(valor_num) ELSE 0

\* mutant of ChaveValor: the key keeps the whole description
ChaveValorDescricaoInteira(v) ==
  <<ValorFloat(Strip(v.valor)), Lower(Strip(v.descricao))>>

\* chave = f"{valor_float:.2f}|{palavras_chave}"
ChaveValor(v) ==
  LET desc == Strip(v.descricao)
      palavras_chave == Join(Take(Split(Lower(desc)), 3), <<32>>)
  IN  <<ValorFloat(Strip(v.valor)), palavras_chave>>

RECURSIVE DeduplicarLoop(_, _, _)
DeduplicarLoop(valores, valores_vistos, valores_unicos) ==
  IF valores = <<>> THEN valores_unicos
  ELSE LET v == Head(valores)
       IN  IF Strip(v.descricao) = <<>> \/ Strip(v.valor) = <<>>
           THEN DeduplicarLoop(Tail(valores), valores_vistos, valores_unicos)
           ELSE IF ChaveValor(v) \in valores_vistos
           THEN DeduplicarLoop(Tail(valores), valores_vistos, valores_unicos)
           ELSE DeduplicarLoop(Tail(valores), valores_vistos \cup {ChaveValor(v)},
                               Append(valores_unicos, v))

deduplicar_valores(valores) == DeduplicarLoop(valores, {}, <<>>)

(***************************************************************************)
(* mesclar_extracoes                                                       *)
(*                                                                         *)
(* A partial record (one parsed chunk reply) has the fields of Extracao    *)
(* below; a key the reply leaves out reads as empty (dict.get defaults).   *)
(*   parte      [nome, polo]                                               *)
(*   valor      [descricao, valor]                                         *)
(*   decisao    [data, resumo]                                             *)
(*   documento  [tipo, data]                                               *)
(*   evento     [data, descricao, evento, tem_descricao]                   *)
(* The working state of the merge is the result record plus the function's *)
(* local collections (partes_normalizadas, *_vistos, todos_valores).       *)
(***************************************************************************)

\* lines 583-611: the empty result and the empty local collections
ResultadoInicial ==
  [ partes |-> <<>>, objeto_acao |-> <<>>, resumo_fatos |-> <<>>,
    valores_relevantes |-> <<>>, pedidos |-> <<>>, pedidos_autor |-> <<>>,
    pedidos_reu |-> <<>>, pedidos_reconvencao |-> <<>>, preliminares |-> <<>>,
    decisoes |-> <<>>, teses_autor |-> <<>>, teses_reu |-> <<>>,
    documentos_importantes |-> <<>>, historico_processual |-> <<>>,
    historico_fatico |-> <<>>, historico_detalhado |-> <<>>, status_atual |-> <<>>,
    partes_normalizadas |-> <<>>, pedidos_vistos |-> {}, teses_autor_vistas |-> {},
    teses_reu_vistas |-> {}, docs_vistos |-> {}, historico_vistos |-> {},
    todos_valores |-> <<>> ]

\* mutant of MesclaObjeto: a later non-empty value replaces the first
MesclaObjetoUltimo(res, ext) ==
  IF ext.objeto_acao # <<>> THEN [res EXCEPT !.objeto_acao = ext.objeto_acao] ELSE res

\* objeto_acao: the first non-empty value
MesclaObjeto(res, ext) ==
  IF res.objeto_acao = <<>> /\ ext.objeto_acao # <<>>
  THEN [res EXCEPT !.objeto_acao = ext.objeto_acao]
  ELSE res

\* mutant of MesclaResumo: the blank line is put before the first summary too
MesclaResumoSempreSepara(res, ext) ==
  IF ext.resumo_fatos # <<>> /\ ~Contains(res.resumo_fatos, ext.resumo_fatos)
  THEN [res EXCEPT !.resumo_fatos = @ \o <<10, 10>> \o ext.resumo_fatos]
  ELSE res

\* resumo_fatos: concatenated with a blank line, unless already contained
MesclaResumo(res, ext) ==
  LET resumo == ext.resumo_fatos
  IN  IF resumo # <<>> /\ ~Contains(res.resumo_fatos, resumo)
      THEN IF res.resumo_fatos # <<>>
           THEN [res EXCEPT !.resumo_fatos = @ \o <<10, 10>> \o resumo]
           ELSE [res EXCEPT !.resumo_fatos = resumo]
      ELSE res

\* nome_norm in partes_normalizadas (a dict, kept as its items in insertion order)
TemChave(partes_normalizadas, nome_norm) ==
  \E i \in 1..Len(partes_normalizadas) : partes_normalizadas[i].chave = nome_norm

\* mutant of RegistraParte: the membership test on the dict is left out
RegistraParteSemTeste(partes_normalizadas, p) ==
  LET nome_original == Strip(p.nome)
  IN  IF nome_original = <<>> \/ Upper(nome_original) = <<78, 79, 78, 69>>
      THEN partes_normalizadas
      ELSE IF normalizar_nome(nome_original) # <<>>
           THEN Append(partes_normalizadas,
                       [chave |-> normalizar_nome(nome_original), p |-> p])
           ELSE partes_normalizadas

\* lines 631-638, one party: skipped when empty or "NONE", else kept under its
\* normalised name unless that key is already present
RegistraParte(partes_normalizadas, p) ==
  LET nome_original == Strip(p.nome)
      nome_norm == normalizar_nome(nome_original)
  IN  IF nome_original = <<>> \/ Upper(nome_original) = <<78, 79, 78, 69>>  \* "NONE"
      THEN partes_normalizadas
      ELSE IF nome_norm # <<>> /\ ~TemChave(partes_normalizadas, nome_norm)
           THEN Append(partes_normalizadas, [chave |-> nome_norm, p |-> p])
           ELSE partes_normalizadas

RECURSIVE RegistraPartes(_, _)
RegistraPartes(partes_normalizadas, partes) ==
  IF partes = <<>> THEN partes_normalizadas
  ELSE RegistraPartes(RegistraParte(partes_normalizadas, Head(partes)), Tail(partes))

\* mutant of MesclaPartes: parties are read only while none has been kept
MesclaPartesSoPrimeiro(res, ext) ==
  IF res.partes_normalizadas = <<>>
  THEN [res EXCEPT !.partes_normalizadas = RegistraPartes(@, ext.partes)]
  ELSE res

\* lines 629-638
MesclaPartes(res, ext) ==
  [res EXCEPT !.partes_normalizadas = RegistraPartes(@, ext.partes)]

\* valores_relevantes: collected, deduplicated at the end
MesclaValores(res, ext) ==
  [res EXCEPT !.todos_valores = @ \o ext.valores_relevantes]

\* p.lower().strip()[:50]
ChaveTexto(p) == Take(Strip(Lower(p)), 50)

\* one free-text list (pedidos, teses_autor, teses_reu): ac = [vistos, lista]
RECURSIVE DedupTextos(_, _)
DedupTextos(ac, textos) ==
  IF textos = <<>> THEN ac
  ELSE LET p == Head(textos)
       IN  IF p # <<>> /\ ChaveTexto(p) \notin ac.vistos
           THEN DedupTextos([vistos |-> ac.vistos \cup {ChaveTexto(p)},
                             lista |-> Append(ac.lista, p)], Tail(textos))
           ELSE DedupTextos(ac, Tail(textos))

MesclaPedidos(res, ext) ==
  LET ac == DedupTextos([vistos |-> res.pedidos_vistos, lista |-> res.pedidos],
                        ext.pedidos)
  IN  [res EXCEPT !.pedidos_vistos = ac.vistos, !.pedidos = ac.lista]

\* mutant of MesclaDecisoes: a decision already in the result is not appended
MesclaDecisoesSemRepetir(res, ext) ==
  [res EXCEPT !.decisoes =
     @ \o SelectSeq(ext.decisoes,
                    LAMBDA d : \A i \in 1..Len(res.decisoes) : res.decisoes[i] # d)]

\* decisoes: every decision of every record is appended
MesclaDecisoes(res, ext) == [res EXCEPT !.decisoes = @ \o ext.decisoes]

MesclaTesesAutor(res, ext) ==
  LET ac == DedupTextos([vistos |-> res.teses_autor_vistas, lista |-> res.teses_autor],
                        ext.teses_autor)
  IN  [res EXCEPT !.teses_autor_vistas = ac.vistos, !.teses_autor = ac.lista]

MesclaTesesReu(res, ext) ==
  LET ac == DedupTextos([vistos |-> res.teses_reu_vistas, lista |-> res.teses_reu],
                        ext.teses_reu)
  IN  [res EXCEPT !.teses_reu_vistas = ac.vistos, !.teses_reu = ac.lista]

\* d.get("tipo", "").lower().strip()
ChaveDoc(d) == Strip(Lower(d.tipo))

RECURSIVE DedupDocs(_, _)
DedupDocs(ac, docs) ==
  IF docs = <<>> THEN ac
  ELSE LET d == Head(docs)
       IN  IF ChaveDoc(d) # <<>> /\ ChaveDoc(d) \notin ac.vistos
           THEN DedupDocs([vistos |-> ac.vistos \cup {ChaveDoc(d)},
                           lista |-> Append(ac.lista, d)], Tail(docs))
           ELSE DedupDocs(ac, Tail(docs))

MesclaDocs(res, ext) ==
  LET ac == DedupDocs([vistos |-> res.docs_vistos, lista |-> res.documentos_importantes],
                      ext.documentos_importantes)
  IN  [res EXCEPT !.docs_vistos = ac.vistos, !.documentos_importantes = ac.lista]

\* h.get("descricao", h.get("evento", ""))
DescEvento(h) == IF h.tem_descricao THEN h.descricao ELSE h.evento

\* chave = f"{data}|{desc[:30]}".lower()
ChaveEvento(h) == Lower(h.data \o <<124>> \o Take(DescEvento(h), 30))

\* mutant of RegistraEvento: the noise filter is left out
RegistraEventoSemFiltro(res, h) ==
  IF ChaveEvento(h) \in res.historico_vistos THEN res
  ELSE IF categorizar_evento(DescEvento(h)) = "fatico"
       THEN [res EXCEPT !.historico_vistos = @ \cup {ChaveEvento(h)},
                        !.historico_fatico = Append(@, h)]
       ELSE [res EXCEPT !.historico_vistos = @ \cup {ChaveEvento(h)},
                        !.historico_processual = Append(@, h)]

\* lines 684-701, one event: noise is skipped, a seen key is skipped, the rest
\* goes to the list of its category
RegistraEvento(res, h) ==
  IF ~is_evento_relevante(DescEvento(h)) THEN res
  ELSE IF ChaveEvento(h) \in res.historico_vistos THEN res
  ELSE IF categorizar_evento(DescEvento(h)) = "fatico"
       THEN [res EXCEPT !.historico_vistos = @ \cup {ChaveEvento(h)},
                        !.historico_fatico = Append(@, h)]
       ELSE [res EXCEPT !.historico_vistos = @ \cup {ChaveEvento(h)},
                        !.historico_processual = Append(@, h)]

RECURSIVE RegistraEventos(_, _)
RegistraEventos(res, hs) ==
  IF hs = <<>> THEN res ELSE RegistraEventos(RegistraEvento(res, Head(hs)), Tail(hs))

MesclaHistorico(res, ext) == RegistraEventos(res, ext.historico_detalhado)

\* mutant of MesclaStatus: the first non-empty value is kept
MesclaStatusPrimeiro(res, ext) ==
  IF res.status_atual = <<>> /\ ext.status_atual # <<>>
  THEN [res EXCEPT !.status_atual = ext.status_atual]
  ELSE res

\* status_atual: every non-empty value overwrites ("pega o ultimo nao vazio")
MesclaStatus(res, ext) ==
  IF ext.status_atual # <<>> THEN [res EXCEPT !.status_atual = ext.status_atual] ELSE res

\* lines 613-705, the body of the loop for one partial record.  The blocks write
\* disjoint keys of the working state; each is applied to res and gives the keys
\* it writes.
MesclaUma(res, ext) ==
  LET pedidos == MesclaPedidos(res, ext)
      teses_autor == MesclaTesesAutor(res, ext)
      teses_reu == MesclaTesesReu(res, ext)
      docs == MesclaDocs(res, ext)
      historico == MesclaHistorico(res, ext)
  IN  [ partes |-> res.partes,
        objeto_acao |-> MesclaObjeto(res, ext).objeto_acao,
        resumo_fatos |-> MesclaResumo(res, ext).resumo_fatos,
        valores_relevantes |-> res.valores_relevantes,
        pedidos |-> pedidos.pedidos,
        pedidos_autor |-> res.pedidos_autor,
        pedidos_reu |-> res.pedidos_reu,
        pedidos_reconvencao |-> res.pedidos_reconvencao,
        preliminares |-> res.preliminares,
        decisoes |-> MesclaDecisoes(res, ext).decisoes,
        teses_autor |-> teses_autor.teses_autor,
        teses_reu |-> teses_reu.teses_reu,
        documentos_importantes |-> docs.documentos_importantes,
        historico_processual |-> historico.historico_processual,
        historico_fatico |-> historico.historico_fatico,
        historico_detalhado |-> res.historico_detalhado,
        status_atual |-> MesclaStatus(res, ext).status_atual,
        partes_normalizadas |-> MesclaPartes(res, ext).partes_normalizadas,
        pedidos_vistos |-> pedidos.pedidos_vistos,
        teses_autor_vistas |-> teses_autor.teses_autor_vistas,
        teses_reu_vistas |-> teses_reu.teses_reu_vistas,
        docs_vistos |-> docs.docs_vistos,
        historico_vistos |-> historico.historico_vistos,
        todos_valores |-> MesclaValores(res, ext).todos_valores ]

RECURSIVE MesclaTodas(_, _)
MesclaTodas(res, extracoes) ==
  IF extracoes = <<>> THEN res
  ELSE MesclaTodas(MesclaUma(res, Head(extracoes)), Tail(extracoes))

\* a < b and a = b for the <<aaaa, mm, dd>> keys (Python tuple order)
DataMenor(a, b) ==
  \/ a[1] < b[1]
  \/ a[1] = b[1] /\ a[2] < b[2]
  \/ a[1] = b[1] /\ a[2] = b[2] /\ a[3] < b[3]

\* mutant of OrdenaPorData: among equal keys the later element goes first
OrdenaPorDataInstavel(hs) ==
  LET n == Len(hs)
      chave == Seq1([p \in 1..n |-> parse_data_brasileira(hs[p].data)])
      posto == Seq1([p \in 1..n |->
                       1 + Cardinality({q \in 1..n :
                                          \/ DataMenor(chave[q], chave[p])
                                          \/ chave[q] = chave[p] /\ q > p})])
  IN  Seq1([j \in 1..n |-> hs[CHOOSE p \in 1..n : posto[p] = j]])

\* list.sort(key=lambda x: parse_data_brasileira(x.get("data", ""))): the sort
\* is stable, so the element at position p moves to one plus the number of
\* elements with a smaller key or with the same key and an earlier position
OrdenaPorData(hs) ==
  LET n == Len(hs)
      chave == Seq1([p \in 1..n |-> parse_data_brasileira(hs[p].data)])
      posto == Seq1([p \in 1..n |->
                       1 + Cardinality({q \in 1..n :
                                          \/ DataMenor(chave[q], chave[p])
                                          \/ chave[q] = chave[p] /\ q < p})])
  IN  Seq1([j \in 1..n |-> hs[CHOOSE p \in 1..n : posto[p] = j]])

\* lines 707-729: parties, values, sorted histories; only the result's keys stay
Finaliza(res) ==
  LET processual == OrdenaPorData(res.historico_processual)
      fatico == OrdenaPorData(res.historico_fatico)
  IN  [ partes |-> Seq1([i \in 1..Len(res.partes_normalizadas) |->
                           res.partes_normalizadas[i].p]),
        objeto_acao |-> res.objeto_acao,
        resumo_fatos |-> res.resumo_fatos,
        valores_relevantes |-> deduplicar_valores(res.todos_valores),
        pedidos |-> res.pedidos,
        pedidos_autor |-> res.pedidos_autor,
        pedidos_reu |-> res.pedidos_reu,
        pedidos_reconvencao |-> res.pedidos_reconvencao,
        preliminares |-> res.preliminares,
        decisoes |-> res.decisoes,
        teses_autor |-> res.teses_autor,
        teses_reu |-> res.teses_reu,
        documentos_importantes |-> res.documentos_importantes,
        historico_processual |-> processual,
        historico_fatico |-> fatico,
        historico_detalhado |-> OrdenaPorData(processual \o fatico),
        status_atual |-> res.status_atual ]

mesclar_extracoes(extracoes) == Finaliza(MesclaTodas(ResultadoInicial, extracoes))

\* a first chunk: initial petition, one noise event, an undated fact
ExtracaoA ==
  [
    \* 'Cobrança'
    objeto_acao |-> <<67,111,98,114,97,110,231,97>>,
    \* 'Autor cobra dívida.'
    resumo_fatos |-> <<65,117,116,111,114,32,99,111,98,114,97,32,100,237,118,105,100,97,46>>,
    partes |-> <<
        \* 'Empresa ABC Ltda.', 'Autor'
        [nome |-> <<69,109,112,114,101,115,97,32,65,66,67,32,76,116,100,97,46>>, polo |-> <<65,117,116,111,114>>],
        \* 'João Silva', 'Réu'
        [nome |-> <<74,111,227,111,32,83,105,108,118,97>>, polo |-> <<82,233,117>>]
      >>,
    valores_relevantes |-> <<
        \* 'Valor da causa', 'R$ 10.000,00'
        [descricao |-> <<86,97,108,111,114,32,100,97,32,99,97,117,115,97>>, valor |-> <<82,36,32,49,48,46,48,48,48,44,48,48>>]
      >>,
    pedidos |-> <<
        \* 'Condenação ao pagamento'
        <<67,111,110,100,101,110,97,231,227,111,32,97,111,32,112,97,103,97,109,101,110,116,111>>
      >>,
    decisoes |-> <<
        \* '01/03/2023', 'Liminar deferida'
        [data |-> <<48,49,47,48,51,47,50,48,50,51>>, resumo |-> <<76,105,109,105,110,97,114,32,100,101,102,101,114,105,100,97>>]
      >>,
    teses_autor |-> <<
        \* 'Inadimplemento'
        <<73,110,97,100,105,109,112,108,101,109,101,110,116,111>>
      >>,
    teses_reu |-> <<>>,
    documentos_importantes |-> <<
        \* 'Petição Inicial', '10/01/2023'
        [tipo |-> <<80,101,116,105,231,227,111,32,73,110,105,99,105,97,108>>, data |-> <<49,48,47,48,49,47,50,48,50,51>>]
      >>,
    historico_detalhado |-> <<
        \* '01/02/2023', 'Citação do réu', ''
        [data |-> <<48,49,47,48,50,47,50,48,50,51>>, descricao |-> <<67,105,116,97,231,227,111,32,100,111,32,114,233,117>>, evento |-> <<>>, tem_descricao |-> TRUE],
        \* '15/01/2023', 'Documento assinado eletronicamente', ''
        [data |-> <<49,53,47,48,49,47,50,48,50,51>>, descricao |-> <<68,111,99,117,109,101,110,116,111,32,97,115,115,105,110,97,100,111,32,101,108,101,116,114,111,110,105,99,97,109,101,110,116,101>>, evento |-> <<>>, tem_descricao |-> TRUE],
        \* '', 'Contrato firmado', ''
        [data |-> <<>>, descricao |-> <<67,111,110,116,114,97,116,111,32,102,105,114,109,97,100,111>>, evento |-> <<>>, tem_descricao |-> TRUE]
      >>,
    \* 'Em andamento'
    status_atual |-> <<69,109,32,97,110,100,97,109,101,110,116,111>>
  ]

\* the same case in other spellings: upper case, no accents, dot-decimal value
ExtracaoB ==
  [
    \* ''
    objeto_acao |-> <<>>,
    \* 'Autor cobra dívida.'
    resumo_fatos |-> <<65,117,116,111,114,32,99,111,98,114,97,32,100,237,118,105,100,97,46>>,
    partes |-> <<
        \* 'EMPRESA ABC LTDA', 'Autor'
        [nome |-> <<69,77,80,82,69,83,65,32,65,66,67,32,76,84,68,65>>, polo |-> <<65,117,116,111,114>>],
        \* 'none', ''
        [nome |-> <<110,111,110,101>>, polo |-> <<>>],
        \* 'JOAO SILVA', 'Réu'
        [nome |-> <<74,79,65,79,32,83,73,76,86,65>>, polo |-> <<82,233,117>>]
      >>,
    valores_relevantes |-> <<
        \* 'Valor da causa danos', 'R$10000.00'
        [descricao |-> <<86,97,108,111,114,32,100,97,32,99,97,117,115,97,32,100,97,110,111,115>>, valor |-> <<82,36,49,48,48,48,48,46,48,48>>],
        \* 'VALOR DA CAUSA atualizado', '10.000,004'
        [descricao |-> <<86,65,76,79,82,32,68,65,32,67,65,85,83,65,32,97,116,117,97,108,105,122,97,100,111>>, valor |-> <<49,48,46,48,48,48,44,48,48,52>>]
      >>,
    pedidos |-> <<
        \* 'CONDENAÇÃO AO PAGAMENTO '
        <<67,79,78,68,69,78,65,199,195,79,32,65,79,32,80,65,71,65,77,69,78,84,79,32>>
      >>,
    decisoes |-> <<>>,
    teses_autor |-> <<>>,
    teses_reu |-> <<
        \* 'Prescrição'
        <<80,114,101,115,99,114,105,231,227,111>>
      >>,
    documentos_importantes |-> <<
        \* 'petição inicial ', ''
        [tipo |-> <<112,101,116,105,231,227,111,32,105,110,105,99,105,97,108,32>>, data |-> <<>>],
        \* '', '01/01/2023'
        [tipo |-> <<>>, data |-> <<48,49,47,48,49,47,50,48,50,51>>]
      >>,
    historico_detalhado |-> <<
        \* '15/01/2023', 'Citação do réu', ''
        [data |-> <<49,53,47,48,49,47,50,48,50,51>>, descricao |-> <<67,105,116,97,231,227,111,32,100,111,32,114,233,117>>, evento |-> <<>>, tem_descricao |-> TRUE],
        \* '01/02/2023', 'CITAÇÃO DO RÉU', ''
        [data |-> <<48,49,47,48,50,47,50,48,50,51>>, descricao |-> <<67,73,84,65,199,195,79,32,68,79,32,82,201,85>>, evento |-> <<>>, tem_descricao |-> TRUE],
        \* '15/01/2023', '', 'DOCUMENTO ASSINADO'
        [data |-> <<49,53,47,48,49,47,50,48,50,51>>, descricao |-> <<>>, evento |-> <<68,79,67,85,77,69,78,84,79,32,65,83,83,73,78,65,68,79>>, tem_descricao |-> FALSE]
      >>,
    \* 'Sentenciado'
    status_atual |-> <<83,101,110,116,101,110,99,105,97,100,111>>
  ]

\* blank and unparseable entries, long texts sharing a 50-character prefix
ExtracaoC ==
  [
    \* 'Indenização'
    objeto_acao |-> <<73,110,100,101,110,105,122,97,231,227,111>>,
    \* 'Réu contesta.'
    resumo_fatos |-> <<82,233,117,32,99,111,110,116,101,115,116,97,46>>,
    partes |-> <<
        \* 'Empresa  ABC', 'Autor'
        [nome |-> <<69,109,112,114,101,115,97,32,32,65,66,67>>, polo |-> <<65,117,116,111,114>>],
        \* '', 'Réu'
        [nome |-> <<>>, polo |-> <<82,233,117>>],
        \* '  ', 'Réu'
        [nome |-> <<32,32>>, polo |-> <<82,233,117>>],
        \* 'Ltda.', 'Réu'
        [nome |-> <<76,116,100,97,46>>, polo |-> <<82,233,117>>]
      >>,
    valores_relevantes |-> <<
        \* 'Multa', 'a combinar'
        [descricao |-> <<77,117,108,116,97>>, valor |-> <<97,32,99,111,109,98,105,110,97,114>>],
        \* 'Multa', 'R$ 0,00'
        [descricao |-> <<77,117,108,116,97>>, valor |-> <<82,36,32,48,44,48,48>>],
        \* '', 'R$ 5,00'
        [descricao |-> <<>>, valor |-> <<82,36,32,53,44,48,48>>],
        \* 'Juros', '1,2,3'
        [descricao |-> <<74,117,114,111,115>>, valor |-> <<49,44,50,44,51>>]
      >>,
    pedidos |-> <<
        \* 'Pagamento de indenização por danos morais e materiais sofridos'
        <<80,97,103,97,109,101,110,116,111,32,100,101,32,105,110,100,101,110,105,122,97,231,227,111,32,112,111,114,32,100,97,110,111,115,32,109,111,114,97,105,115,32,101,32,109,97,116,101,114,105,97,105,115,32,115,111,102,114,105,100,111,115>>,
        \* 'Pagamento de indenização por danos morais e materiais causados'
        <<80,97,103,97,109,101,110,116,111,32,100,101,32,105,110,100,101,110,105,122,97,231,227,111,32,112,111,114,32,100,97,110,111,115,32,109,111,114,97,105,115,32,101,32,109,97,116,101,114,105,97,105,115,32,99,97,117,115,97,100,111,115>>
      >>,
    decisoes |-> <<
        \* '01/03/2023', 'Liminar deferida'
        [data |-> <<48,49,47,48,51,47,50,48,50,51>>, resumo |-> <<76,105,109,105,110,97,114,32,100,101,102,101,114,105,100,97>>]
      >>,
    teses_autor |-> <<
        \* 'inadimplemento'
        <<105,110,97,100,105,109,112,108,101,109,101,110,116,111>>,
        \* ''
        <<>>
      >>,
    teses_reu |-> <<
        \* 'Ilegitimidade passiva'
        <<73,108,101,103,105,116,105,109,105,100,97,100,101,32,112,97,115,115,105,118,97>>
      >>,
    documentos_importantes |-> <<
        \* 'Contestação', '05/03/2023'
        [tipo |-> <<67,111,110,116,101,115,116,97,231,227,111>>, data |-> <<48,53,47,48,51,47,50,48,50,51>>]
      >>,
    historico_detalhado |-> <<
        \* '10/03/2023', 'Audiência de conciliação designada com acordo', ''
        [data |-> <<49,48,47,48,51,47,50,48,50,51>>, descricao |-> <<65,117,100,105,234,110,99,105,97,32,100,101,32,99,111,110,99,105,108,105,97,231,227,111,32,100,101,115,105,103,110,97,100,97,32,99,111,109,32,97,99,111,114,100,111>>, evento |-> <<>>, tem_descricao |-> TRUE],
        \* 'xx/03/2023', 'Recesso forense', ''
        [data |-> <<120,120,47,48,51,47,50,48,50,51>>, descricao |-> <<82,101,99,101,115,115,111,32,102,111,114,101,110,115,101>>, evento |-> <<>>, tem_descricao |-> TRUE],
        \* '05/03/2023', '', 'Juntada de contestação'
        [data |-> <<48,53,47,48,51,47,50,48,50,51>>, descricao |-> <<>>, evento |-> <<74,117,110,116,97,100,97,32,100,101,32,99,111,110,116,101,115,116,97,231,227,111>>, tem_descricao |-> FALSE]
      >>,
    \* ''
    status_atual |-> <<>>
  ]

\* events that share date and 30-character prefix with ExtracaoC but not the category
ExtracaoD ==
  [
    \* ''
    objeto_acao |-> <<>>,
    \* ''
    resumo_fatos |-> <<>>,
    partes |-> <<
        \* 'João  Silva ME', 'Réu'
        [nome |-> <<74,111,227,111,32,32,83,105,108,118,97,32,77,69>>, polo |-> <<82,233,117>>]
      >>,
    valores_relevantes |-> <<
        \* 'Valor da causa', '10000'
        [descricao |-> <<86,97,108,111,114,32,100,97,32,99,97,117,115,97>>, valor |-> <<49,48,48,48,48>>]
      >>,
    pedidos |-> <<>>,
    decisoes |-> <<>>,
    teses_autor |-> <<>>,
    teses_reu |-> <<>>,
    documentos_importantes |-> <<>>,
    historico_detalhado |-> <<
        \* '10/03/2023', 'Audiência de conciliação designada sem êxito', ''
        [data |-> <<49,48,47,48,51,47,50,48,50,51>>, descricao |-> <<65,117,100,105,234,110,99,105,97,32,100,101,32,99,111,110,99,105,108,105,97,231,227,111,32,100,101,115,105,103,110,97,100,97,32,115,101,109,32,234,120,105,116,111>>, evento |-> <<>>, tem_descricao |-> TRUE],
        \* '5/3/2023', 'Pagamento de parcela', ''
        [data |-> <<53,47,51,47,50,48,50,51>>, descricao |-> <<80,97,103,97,109,101,110,116,111,32,100,101,32,112,97,114,99,101,108,97>>, evento |-> <<>>, tem_descricao |-> TRUE],
        \* '', 'Despacho', ''
        [data |-> <<>>, descricao |-> <<68,101,115,112,97,99,104,111>>, evento |-> <<>>, tem_descricao |-> TRUE],
        \* 'sem data', 'Ofício expedido', ''
        [data |-> <<115,101,109,32,100,97,116,97>>, descricao |-> <<79,102,237,99,105,111,32,101,120,112,101,100,105,100,111>>, evento |-> <<>>, tem_descricao |-> TRUE]
      >>,
    \* 'Em andamento'
    status_atual |-> <<69,109,32,97,110,100,97,109,101,110,116,111>>
  ]

\* the parsed chunk replies the model draws from
Catalogo == <<ExtracaoA, ExtracaoB, ExtracaoC, ExtracaoD>>

(***************************************************************************)
(* processar_processo: the files of the folder and their deduplication     *)
(*                                                                         *)
(* A file is [nome, pasta, inicio, resto]: pdf.name, str(pdf.parent) and   *)
(* the extracted text, kept as its first 10,000 characters (inicio) and    *)
(* what follows them (resto).  hashlib.md5 is taken to be injective, so    *)
(* the fingerprint of a text is its inicio.                                *)
(***************************************************************************)

\* a normal file: proc/a.pdf, text 'Texto X' + ''
PdfA ==
  [ nome |-> <<97,46,112,100,102>>,
    pasta |-> <<112,114,111,99>>,
    inicio |-> <<84,101,120,116,111,32,88>>,
    resto |-> <<>> ]

\* the same content under another name: proc/b.pdf, text 'Texto X' + ''
PdfB ==
  [ nome |-> <<98,46,112,100,102>>,
    pasta |-> <<112,114,111,99>>,
    inicio |-> <<84,101,120,116,111,32,88>>,
    resto |-> <<>> ]

\* important by prefix; same first 10,000 characters, more text after them: proc/IMPORTANTE_c.pdf, text 'Texto X' + ' fim'
PdfC ==
  [ nome |-> <<73,77,80,79,82,84,65,78,84,69,95,99,46,112,100,102>>,
    pasta |-> <<112,114,111,99>>,
    inicio |-> <<84,101,120,116,111,32,88>>,
    resto |-> <<32,102,105,109>> ]

\* important by folder; same file name as PdfA: proc/Importantes/a.pdf, text 'Texto Y' + ''
PdfD ==
  [ nome |-> <<97,46,112,100,102>>,
    pasta |-> <<112,114,111,99,47,73,109,112,111,114,116,97,110,116,101,115>>,
    inicio |-> <<84,101,120,116,111,32,89>>,
    resto |-> <<>> ]

\* no extractable text: proc/e.pdf, text ' \n' + ''
PdfE ==
  [ nome |-> <<101,46,112,100,102>>,
    pasta |-> <<112,114,111,99>>,
    inicio |-> <<32,10>>,
    resto |-> <<>> ]

\* a normal copy of PdfD in a subfolder: proc/sub/d.pdf, text 'Texto Y' + ''
PdfF ==
  [ nome |-> <<100,46,112,100,102>>,
    pasta |-> <<112,114,111,99,47,115,117,98>>,
    inicio |-> <<84,101,120,116,111,32,89>>,
    resto |-> <<>> ]

\* the PDF files a case folder may hold
Arquivos == {PdfA, PdfB, PdfC, PdfD, PdfE, PdfF}

prefixos_importantes ==
  <<
    <<73,77,80,79,82,84,65,78,84,69,95>>,  \* 'IMPORTANTE_'
    <<80,82,73,78,67,73,80,65,76,95>>,  \* 'PRINCIPAL_'
    <<68,69,83,84,65,81,85,69,95>>  \* 'DESTAQUE_'
  >>

\* 'importantes'
pasta_importantes == <<105,109,112,111,114,116,97,110,116,101,115>>

\* lines 998-1001
EhImportante(pdf) ==
  \/ \E j \in 1..Len(prefixos_importantes) : StartsWith(pdf.nome, prefixos_importantes[j])
  \/ Contains(Lower(pdf.pasta), pasta_importantes)

\* texto.strip() is empty
SemTexto(pdf) == Strip(pdf.inicio \o pdf.resto) = <<>>

\* hashlib.md5(texto[:10000].encode()).hexdigest()
TextoHash(pdf) == pdf.inicio

\* position of texto_hash in textos_unicos (a dict, kept as its items in
\* insertion order), 0 when absent
PosHash(textos_unicos, texto_hash) ==
  IF \E j \in 1..Len(textos_unicos) : textos_unicos[j].hash = texto_hash
  THEN CHOOSE j \in 1..Len(textos_unicos) : textos_unicos[j].hash = texto_hash
  ELSE 0

EntradaTexto(pdf, eh_importante) ==
  [ hash |-> TextoHash(pdf), nome |-> pdf.nome,
    texto |-> [inicio |-> pdf.inicio, resto |-> pdf.resto],
    importante |-> eh_importante ]

\* mutant of GuardaTexto: a duplicate always replaces the entry it meets
GuardaTextoUltimoVence(textos_unicos, pdf, eh_importante) ==
  IF SemTexto(pdf) THEN textos_unicos
  ELSE LET pos == PosHash(textos_unicos, TextoHash(pdf))
       IN  IF pos = 0 THEN Append(textos_unicos, EntradaTexto(pdf, eh_importante))
           ELSE [textos_unicos EXCEPT ![pos] = EntradaTexto(pdf, eh_importante)]

\* lines 1015-1033, one file: a text with a new fingerprint is stored; a
\* duplicate replaces the stored one only when it is important and that one is not
GuardaTexto(textos_unicos, pdf, eh_importante) ==
  IF SemTexto(pdf) THEN textos_unicos
  ELSE LET pos == PosHash(textos_unicos, TextoHash(pdf))
       IN  IF pos = 0 THEN Append(textos_unicos, EntradaTexto(pdf, eh_importante))
           ELSE IF eh_importante /\ ~textos_unicos[pos].importante
                THEN [textos_unicos EXCEPT ![pos] = EntradaTexto(pdf, TRUE)]
                ELSE textos_unicos

\* a <= b for Python strings (code point order)
StrMenorIgual(a, b) ==
  LET m == Min(Len(a), Len(b))
      difere == {p \in 1..m : a[p] # b[p]}
  IN  IF difere = {} THEN Len(a) <= Len(b)
      ELSE a[MinDe(difere)] < b[MinDe(difere)]

\* key=lambda x: (not x[2], x[0]) : x < y
ChaveTextoMenor(x, y) ==
  \/ x.importante /\ ~y.importante
  \/ x.importante = y.importante /\ x.nome # y.nome /\ StrMenorIgual(x.nome, y.nome)

\* sorted(textos_unicos.values(), key=...): important first, then by name; the
\* sort is stable, so equal keys keep the dict's insertion order
OrdenaTextos(textos_unicos) ==
  LET n == Len(textos_unicos)
      posto == Seq1([p \in 1..n |->
                       1 + Cardinality({q \in 1..n :
                                          \/ ChaveTextoMenor(textos_unicos[q], textos_unicos[p])
                                          \/ /\ textos_unicos[q].importante = textos_unicos[p].importante
                                             /\ textos_unicos[q].nome = textos_unicos[p].nome
                                             /\ q < p})])
  IN  Seq1([j \in 1..n |-> textos_unicos[CHOOSE p \in 1..n : posto[p] = j]])

\* lines 994-1007: the files in enumeration order, split by importance
Importantes(lista) == SelectSeq(lista, EhImportante)

Normais(lista) == SelectSeq(lista, LAMBDA pdf : ~EhImportante(pdf))

RECURSIVE GuardaTodos(_, _)
GuardaTodos(textos_unicos, fila) ==
  IF fila = <<>> THEN textos_unicos
  ELSE GuardaTodos(GuardaTexto(textos_unicos, Head(fila), EhImportante(Head(fila))),
                   Tail(fila))

\* lines 994-1048 for one enumeration order of the folder
TextosDaOrdem(lista) == OrdenaTextos(GuardaTodos(<<>>, Importantes(lista) \o Normais(lista)))

(***************************************************************************)
(* State                                                                   *)
(***************************************************************************)

VARIABLES
  \* processar_processo, lines 979-1048
  dpc,                   \* "inicio", "extrai", "fim"
  pdfs,                  \* the files in the order list(set(...)) enumerates them
  arquivos_importantes,
  arquivos_normais,
  idx_pdf,                     \* files of arquivos_importantes + arquivos_normais read so far
  textos_unicos,
  textos_ordenados,
  \* processar_processo, lines 1083-1158
  pc,                    \* "chunks", "fim"
  n_chunks,              \* len(chunks)
  idx_chunk,                     \* chunks handled so far
  extracoes,
  extracao,              \* resultado['extracao']
  desfechos,             \* history: how each chunk handled so far ended, and what it gave
  \* mesclar_extracoes applied to a list, to its own result, to a reordering
  etapa,                 \* "entrada", "mesclado", "remesclado", "duplicado", "permutado"
  entrada,
  saida,
  anterior

VARIABLES
  \* chamar_google, lines 756-849
  agora,                  \* time.time(), whole seconds
  google_last_request,    \* _google_last_request
  google_request_count,   \* _google_request_count
  google_minute_start,    \* _google_minute_start
  gpc,                    \* "ocioso", "entrada", "limite", "pausa", "envia", "resposta"
  current_time,           \* the local read at line 769
  retry_count,
  \* history of the sends, kept for the properties
  enviados_janela,        \* requests sent since _google_minute_start was last set
  janela_cheia,           \* start of the window the last send filled, else -1
  apos_cheia,             \* when the last send followed a filled window: <<start of
                          \*   that window, time of the send, counter after it>>,
                          \*   else <<>>
  intervalo_envios,       \* seconds between the last two sends, -1 before the second
  primeiro_envio,         \* time of the first send, -1 before it
  total_envios,           \* requests sent so far
  \* history of the current call of chamar_llm, kept for the properties
  tentativas,             \* requests it has sent
  respostas,              \* what came back for each: "final", "429", "timeout"
  fim_espera,             \* time the 60 s sleep of the last 429 ended, else -1
  reenvio                 \* when the last send followed a 429: <<counter before the
                          \*   send, window start, fim_espera>>, else <<>>

vars_dedup ==
  <<dpc, pdfs, arquivos_importantes, arquivos_normais, idx_pdf, textos_unicos, textos_ordenados>>

vars_chunks == <<pc, n_chunks, idx_chunk, extracoes, extracao, desfechos>>

vars_mescla == <<etapa, entrada, saida, anterior>>

vars_google ==
  <<agora, google_last_request, google_request_count, google_minute_start, gpc,
    current_time, retry_count, enviados_janela, janela_cheia, apos_cheia,
    intervalo_envios, primeiro_envio, total_envios,
    tentativas, respostas, fim_espera, reenvio>>

VARIABLES
  \* one run, from the GUI (BotSinteseGUI) or the command line (__main__)
  via,                    \* "gui", "cli"
  config,                 \* the credentials of the Config object, by backend
  modo,                   \* the mode of the run
  pasta,                  \* "ausente", "sem_pdf", "sem_texto", "com_texto"
  tem_numero,             \* the patterns find a case number in the text
  ollama_ok,              \* GET /api/tags answers 200
  processando,            \* self.processando
  epc,                    \* "ocioso", "thread", "chunks", "relatorio", "fim"
  chunks_restantes,
  tem_extracao,           \* resultado['extracao'] is not empty
  erro,                   \* "", "credencial", "pasta", "ollama", "ValueError"
  relatorio,              \* sintese_processual.md was written by this run
  \* history of the run, kept for the properties
  pedidos_http,           \* requests sent to the backend
  chamadas_llm,           \* calls of chamar_llm
  vazia_no_pedido,        \* the credential of the mode was empty when the run was asked
  salvo_durante,          \* salvar() changed the Config while the thread was running
  rejeitado,              \* a reply of this run was HTTP 401 or 403
  apos_rejeicao,          \* a request of this run was sent after such a reply
  destinos,               \* the backends that were sent a request in this run
  \* normalizar_nome applied twice
  npc,                    \* "entrada", "uma" (normalised once), "duas"
  nome,                   \* the name as it came
  normalizado,            \* normalizar_nome(nome)
  renormalizado,          \* normalizar_nome(normalizado)
  \* the reply of one chunk, from the text to the parsed object
  rpc,                    \* "resposta", "reparo", "fim"
  caso,                   \* what the reply was made of: object text, defect, fence
  resposta,               \* the reply of the backend
  extraidas,              \* what the chunk appended to extracoes (canonical texts)
  n_estrito,              \* json.loads calls of the strict attempt
  n_reparo,               \* repair-and-retry passes
  trecho_reparado,        \* the text the repair started from
  \* the consolidation of parsed replies of any shape
  fpc,                    \* "extraidas", "fim"
  formas,                 \* the parsed replies, each by the one key that is out of shape
  excecao                 \* the exception that left the consolidation, "" when none

vars_exec ==
  <<via, config, modo, pasta, tem_numero, ollama_ok, processando, epc, chunks_restantes,
    tem_extracao, erro, relatorio, pedidos_http, chamadas_llm, vazia_no_pedido, salvo_durante,
    rejeitado, apos_rejeicao, destinos>>

VARIABLES
  \* processar_processo, lines 1048-1076
  tpc,                    \* "inicio", "detectado", "dividido"
  trechos,                \* the page texts the combined text was built from
  texto_completo,
  modo_divisao,           \* the mode handed to dividir_em_chunks
  sistema,                \* detectar_sistema(texto_completo)
  dados_sistema,          \* resultado['dados'].sistema
  chunks,
  prompts                 \* the prompts handed to chamar_llm, line 1091

vars_texto == <<tpc, trechos, texto_completo, modo_divisao, sistema, dados_sistema, chunks, prompts>>

VARIABLES
  \* chamar_google called from several threads: what each thread holds
  chamadores              \* per thread: pc, current_time (line 769), lido (the value
                          \*   of _google_request_count read at line 797), acorda (when
                          \*   its time.sleep ends), dorme_em (the test that made it sleep)

vars_conc == <<chamadores>>

vars_nome == <<npc, nome, normalizado, renormalizado>>

vars_reparo == <<rpc, caso, resposta, extraidas, n_estrito, n_reparo, trecho_reparado>>

vars_formas == <<fpc, formas, excecao>>

vars == <<vars_dedup, vars_chunks, vars_mescla, vars_google, vars_exec, vars_texto, vars_conc, vars_nome, vars_reparo, vars_formas>>

\* number of files in the folder
MaxPdfs == 3

\* number of chunks of one run
MaxChunks == 3

\* length of the list handed to mesclar_extracoes
MaxExtracoes == 3

CatalogoSet == {Catalogo[j] : j \in 1..Len(Catalogo)}

\* resultado['extracao'] read through dict.get when it is {} (line 972)
DictVazio ==
  [ partes |-> <<>>, objeto_acao |-> <<>>, resumo_fatos |-> <<>>,
    valores_relevantes |-> <<>>, pedidos |-> <<>>, pedidos_autor |-> <<>>,
    pedidos_reu |-> <<>>, pedidos_reconvencao |-> <<>>, preliminares |-> <<>>,
    decisoes |-> <<>>, teses_autor |-> <<>>, teses_reu |-> <<>>,
    documentos_importantes |-> <<>>, historico_processual |-> <<>>,
    historico_fatico |-> <<>>, historico_detalhado |-> <<>>, status_atual |-> <<>> ]

\* one parsed reply as resultado['extracao'] (line 1149): its own keys, unchanged;
\* the keys only mesclar_extracoes creates are absent and read as empty
ComoResultado(ext) ==
  [ partes |-> ext.partes, objeto_acao |-> ext.objeto_acao,
    resumo_fatos |-> ext.resumo_fatos,
    valores_relevantes |-> ext.valores_relevantes, pedidos |-> ext.pedidos,
    pedidos_autor |-> <<>>, pedidos_reu |-> <<>>, pedidos_reconvencao |-> <<>>,
    preliminares |-> <<>>, decisoes |-> ext.decisoes, teses_autor |-> ext.teses_autor,
    teses_reu |-> ext.teses_reu,
    documentos_importantes |-> ext.documentos_importantes,
    historico_processual |-> <<>>, historico_fatico |-> <<>>,
    historico_detalhado |-> ext.historico_detalhado, status_atual |-> ext.status_atual ]

\* mutant of Consolidado: a single parsed reply goes through the merge as well
ConsolidadoSempreMescla(lista) ==
  IF Len(lista) >= 1 THEN mesclar_extracoes(lista) ELSE DictVazio

\* lines 1143-1151
Consolidado(lista) ==
  IF Len(lista) > 1 THEN mesclar_extracoes(lista)
  ELSE IF Len(lista) = 1 THEN ComoResultado(lista[1])
  ELSE DictVazio

DedupParado ==
  /\ dpc = "fim" /\ pdfs = <<>> /\ arquivos_importantes = <<>> /\ arquivos_normais = <<>>
  /\ idx_pdf = 0 /\ textos_unicos = <<>> /\ textos_ordenados = <<>>

ChunksParado ==
  /\ pc = "fim" /\ n_chunks = 0 /\ idx_chunk = 0 /\ extracoes = <<>> /\ extracao = DictVazio
  /\ desfechos = <<>>

MesclaParada ==
  /\ etapa = "fim" /\ entrada = <<>> /\ saida = DictVazio /\ anterior = DictVazio

GoogleParado ==
  /\ agora = 0 /\ google_last_request = 0 /\ google_request_count = 0
  /\ google_minute_start = 0 /\ gpc = "fim" /\ current_time = 0 /\ retry_count = 0
  /\ enviados_janela = 0 /\ janela_cheia = -1 /\ apos_cheia = <<>>
  /\ intervalo_envios = -1 /\ primeiro_envio = -1 /\ total_envios = 0
  /\ tentativas = 0 /\ respostas = <<>> /\ fim_espera = -1 /\ reenvio = <<>>

ConcParado == chamadores = <<>>

NomeParado == npc = "fim" /\ nome = <<>> /\ normalizado = <<>> /\ renormalizado = <<>>

FormasParado == fpc = "fim" /\ formas = <<>> /\ excecao = ""

ReparoParado ==
  /\ rpc = "fim" /\ caso = <<>> /\ resposta = <<>> /\ extraidas = <<>>
  /\ n_estrito = 0 /\ n_reparo = 0 /\ trecho_reparado = <<>>

TextoParado ==
  /\ tpc = "fim" /\ trechos = <<>> /\ texto_completo = <<>> /\ modo_divisao = "local"
  /\ sistema = "" /\ dados_sistema = "" /\ chunks = <<>> /\ prompts = <<>>

\* lines 765, 854, 884, 914: the backends that need a credential
Nuvem == {"google", "anthropic", "openai", "xai"}

\* lines 944-953, 1597-1603: the modes of a run
Modos == {"local"} \cup Nuvem

ExecParado ==
  /\ via = "fim" /\ config = [b \in Nuvem |-> ""] /\ modo = "local" /\ pasta = "ausente"
  /\ tem_numero = FALSE /\ ollama_ok = FALSE /\ processando = FALSE /\ epc = "fim"
  /\ chunks_restantes = 0 /\ tem_extracao = FALSE /\ erro = "" /\ relatorio = FALSE
  /\ pedidos_http = 0 /\ chamadas_llm = 0 /\ vazia_no_pedido = FALSE
  /\ salvo_durante = FALSE
  /\ rejeitado = FALSE /\ apos_rejeicao = FALSE /\ destinos = {}

(***************************************************************************)
(* processar_processo: files -> unique texts                               *)
(***************************************************************************)

SemRepeticao(S, n) ==
  UNION { { s \in [1..m -> S] : \A a, b \in 1..m : a # b => s[a] # s[b] } : m \in 0..n }

InitDedup ==
  /\ pdfs \in SemRepeticao(Arquivos, MaxPdfs)
  /\ dpc = "inicio"
  /\ arquivos_importantes = <<>> /\ arquivos_normais = <<>>
  /\ idx_pdf = 0 /\ textos_unicos = <<>> /\ textos_ordenados = <<>>
  /\ ChunksParado /\ MesclaParada /\ GoogleParado /\ ExecParado /\ TextoParado /\ ConcParado /\ NomeParado /\ ReparoParado /\ FormasParado

\* lines 984-1007: no file ends the run; else the files are split by importance
Classifica ==
  /\ dpc = "inicio"
  /\ IF pdfs = <<>>
     THEN /\ dpc' = "fim"
          /\ UNCHANGED <<arquivos_importantes, arquivos_normais>>
     ELSE /\ dpc' = "extrai"
          /\ arquivos_importantes' = Importantes(pdfs)
          /\ arquivos_normais' = Normais(pdfs)
  /\ UNCHANGED <<pdfs, idx_pdf, textos_unicos, textos_ordenados, vars_chunks, vars_mescla, vars_google, vars_exec, vars_texto, vars_conc, vars_nome, vars_reparo, vars_formas>>

\* lines 1014-1033: one iteration over arquivos_importantes + arquivos_normais
ExtraiTexto ==
  /\ dpc = "extrai"
  /\ idx_pdf < Len(arquivos_importantes \o arquivos_normais)
  /\ LET pdf == (arquivos_importantes \o arquivos_normais)[idx_pdf + 1]
         eh_importante == \E j \in 1..Len(arquivos_importantes) : arquivos_importantes[j] = pdf
     IN  textos_unicos' = GuardaTexto(textos_unicos, pdf, eh_importante)
  /\ idx_pdf' = idx_pdf + 1
  /\ UNCHANGED <<dpc, pdfs, arquivos_importantes, arquivos_normais, textos_ordenados,
                 vars_chunks, vars_mescla, vars_google, vars_exec, vars_texto, vars_conc, vars_nome, vars_reparo, vars_formas>>

\* lines 1035-1048: no text ends the run; else the unique texts are ordered
JuntaTextos ==
  /\ dpc = "extrai"
  /\ idx_pdf = Len(arquivos_importantes \o arquivos_normais)
  /\ dpc' = "fim"
  /\ textos_ordenados' = IF textos_unicos = <<>> THEN <<>> ELSE OrdenaTextos(textos_unicos)
  /\ UNCHANGED <<pdfs, arquivos_importantes, arquivos_normais, idx_pdf, textos_unicos,
                 vars_chunks, vars_mescla, vars_google, vars_exec, vars_texto, vars_conc, vars_nome, vars_reparo, vars_formas>>

NextDedup == Classifica \/ ExtraiTexto \/ JuntaTextos

SpecDedup == InitDedup /\ [][NextDedup]_vars

(***************************************************************************)
(* processar_processo: chunks -> resultado['extracao']                     *)
(***************************************************************************)

Init ==
  /\ pc = "chunks"
  /\ n_chunks \in 1..MaxChunks
  /\ idx_chunk = 0
  /\ extracoes = <<>>
  /\ extracao = DictVazio
  /\ desfechos = <<>>
  /\ DedupParado /\ MesclaParada /\ GoogleParado /\ ExecParado /\ TextoParado /\ ConcParado /\ NomeParado /\ ReparoParado /\ FormasParado

\* lines 1087-1110, 1137-1139: the reply of chunk idx_chunk+1 parses, at once or after repair
ChunkExtraido(e) ==
  /\ pc = "chunks" /\ idx_chunk < n_chunks
  /\ extracoes' = Append(extracoes, e)
  /\ idx_chunk' = idx_chunk + 1
  /\ desfechos' = Append(desfechos, [tipo |-> "extraido", dado |-> e])
  /\ UNCHANGED <<pc, n_chunks, extracao, vars_dedup, vars_mescla, vars_google, vars_exec, vars_texto, vars_conc, vars_nome, vars_reparo, vars_formas>>

\* why a chunk adds nothing.  chamar_llm returned "" (line 1093 fails): the 429
\* retries ran out (line 829), the request timed out to the end (lines 842-849),
\* the status was neither 200 nor 429 (lines 831-840), the 200 had no candidate
\* (lines 816-818).  Or the reply has no {...} in it (lines 1111-1114), or what
\* it has is not JSON even after the repair (lines 1140-1141).
Motivos == {"429", "timeout", "status", "vazia", "sem_json", "json_invalido"}

\* mutant of ChunkIgnorado: the failure of a chunk ends the loop
ChunkAborta(motivo) ==
  /\ pc = "chunks" /\ idx_chunk < n_chunks
  /\ idx_chunk' = idx_chunk + 1
  /\ desfechos' = Append(desfechos, [tipo |-> motivo, dado |-> DictVazio])
  /\ extracao' = Consolidado(extracoes)
  /\ pc' = "fim"
  /\ UNCHANGED <<n_chunks, extracoes, vars_dedup, vars_mescla, vars_google, vars_exec, vars_texto, vars_conc, vars_nome, vars_reparo, vars_formas>>

\* lines 1091-1093, 1111-1114, 1140-1141: the chunk was sent and adds nothing;
\* the loop goes on
ChunkIgnorado(motivo) ==
  /\ pc = "chunks" /\ idx_chunk < n_chunks
  /\ idx_chunk' = idx_chunk + 1
  /\ desfechos' = Append(desfechos, [tipo |-> motivo, dado |-> DictVazio])
  /\ UNCHANGED <<pc, n_chunks, extracoes, extracao, vars_dedup, vars_mescla, vars_google, vars_exec, vars_texto, vars_conc, vars_nome, vars_reparo, vars_formas>>

\* lines 1143-1158
Consolida ==
  /\ pc = "chunks" /\ idx_chunk = n_chunks
  /\ extracao' = Consolidado(extracoes)
  /\ pc' = "fim"
  /\ UNCHANGED <<n_chunks, idx_chunk, extracoes, desfechos, vars_dedup, vars_mescla, vars_google, vars_exec, vars_texto, vars_conc, vars_nome, vars_reparo, vars_formas>>

Next ==
  \/ \E e \in CatalogoSet : ChunkExtraido(e)
  \/ \E motivo \in Motivos : ChunkIgnorado(motivo)
  \/ Consolida

Spec == Init /\ [][Next]_vars

(***************************************************************************)
(* mesclar_extracoes on a list, on its own result, on a reordering         *)
(***************************************************************************)

InitMescla ==
  /\ etapa = "entrada"
  /\ entrada \in UNION { [1..m -> CatalogoSet] : m \in 0..MaxExtracoes }
  /\ saida = DictVazio
  /\ anterior = DictVazio
  /\ DedupParado /\ ChunksParado /\ GoogleParado /\ ExecParado /\ TextoParado /\ ConcParado /\ NomeParado /\ ReparoParado /\ FormasParado

Mescla ==
  /\ etapa = "entrada"
  /\ saida' = mesclar_extracoes(entrada)
  /\ etapa' = "mesclado"
  /\ UNCHANGED <<entrada, anterior, vars_dedup, vars_chunks, vars_google, vars_exec, vars_texto, vars_conc, vars_nome, vars_reparo, vars_formas>>

\* the merged record is merged again, alone
MesclaDeNovo ==
  /\ etapa = "mesclado"
  /\ entrada' = <<saida>>
  /\ saida' = mesclar_extracoes(<<saida>>)
  /\ anterior' = saida
  /\ etapa' = "remesclado"
  /\ UNCHANGED <<vars_dedup, vars_chunks, vars_google, vars_exec, vars_texto, vars_conc, vars_nome, vars_reparo, vars_formas>>

\* the merged record is merged with itself
MesclaConsigo ==
  /\ etapa = "mesclado"
  /\ entrada' = <<saida, saida>>
  /\ saida' = mesclar_extracoes(<<saida, saida>>)
  /\ anterior' = saida
  /\ etapa' = "duplicado"
  /\ UNCHANGED <<vars_dedup, vars_chunks, vars_google, vars_exec, vars_texto, vars_conc, vars_nome, vars_reparo, vars_formas>>

\* the same records are merged in another order
MesclaPermutada(p) ==
  /\ etapa = "mesclado"
  /\ entrada' = Seq1([j \in 1..Len(entrada) |-> entrada[p[j]]])
  /\ saida' = mesclar_extracoes(Seq1([j \in 1..Len(entrada) |-> entrada[p[j]]]))
  /\ anterior' = saida
  /\ etapa' = "permutado"
  /\ UNCHANGED <<vars_dedup, vars_chunks, vars_google, vars_exec, vars_texto, vars_conc, vars_nome, vars_reparo, vars_formas>>

NextMescla ==
  \/ Mescla
  \/ MesclaDeNovo
  \/ MesclaConsigo
  \/ \E p \in Permutations(1..Len(entrada)) : MesclaPermutada(p)

SpecMescla == InitMescla /\ [][NextMescla]_vars

(***************************************************************************)
(* Properties                                                              *)
(***************************************************************************)

\* the description of h contains one of the noise phrases
EventoDeRuido(h) ==
  \E j \in 1..Len(termos_irrelevantes) :
     Contains(Lower(DescEvento(h)), termos_irrelevantes[j])

TemRuido(lista) == \E j \in 1..Len(lista) : EventoDeRuido(lista[j])

\* C1: in every run where at least one chunk reply was parsed (one or several),
\* no event whose description contains a noise phrase is in historico_processual,
\* historico_fatico or historico_detalhado of the final extraction record.
C1_SemRuidoNoRegistro ==
  (pc = "fim" /\ Len(extracoes) >= 1) =>
     /\ ~TemRuido(extracao.historico_processual)
     /\ ~TemRuido(extracao.historico_fatico)
     /\ ~TemRuido(extracao.historico_detalhado)

\* every party of the input list, in input order
RECURSIVE TodasPartes(_)
TodasPartes(lista) ==
  IF lista = <<>> THEN <<>> ELSE Head(lista).partes \o TodasPartes(Tail(lista))

\* the key of a party: its name stripped and normalised
ChaveParte(p) == normalizar_nome(Strip(p.nome))

\* a party the merge does not discard: a name, not the placeholder, a key
ParteValida(p) ==
  /\ Strip(p.nome) # <<>>
  /\ Upper(Strip(p.nome)) # <<78, 79, 78, 69>>
  /\ ChaveParte(p) # <<>>

\* C2: after mesclar_extracoes the partes list holds at most one entry per
\* normalised-name key, every key of a valid input party is present, and the
\* entry kept for a key is the first one with that key in input order.
C2_UmaPartePorChave ==
  etapa = "mesclado" =>
    LET todas == SelectSeq(TodasPartes(entrada), ParteValida)
    IN  /\ \A a, b \in 1..Len(saida.partes) :
              ChaveParte(saida.partes[a]) = ChaveParte(saida.partes[b]) => a = b
        /\ \A a \in 1..Len(todas) :
              \E b \in 1..Len(saida.partes) :
                 /\ ChaveParte(saida.partes[b]) = ChaveParte(todas[a])
                 /\ \E c \in 1..a :
                       /\ todas[c] = saida.partes[b]
                       /\ \A d \in 1..(c - 1) : ChaveParte(todas[d]) # ChaveParte(todas[c])
        /\ \A b \in 1..Len(saida.partes) :
              \E a \in 1..Len(todas) : todas[a] = saida.partes[b]

\* C2 witness: two records spell the same party differently and were merged
C2_Witness ==
  /\ etapa = "mesclado"
  /\ \E a, b \in 1..Len(entrada) :
        /\ a < b
        /\ \E x \in 1..Len(entrada[a].partes), y \in 1..Len(entrada[b].partes) :
              /\ ParteValida(entrada[a].partes[x])
              /\ ChaveParte(entrada[a].partes[x]) = ChaveParte(entrada[b].partes[y])
              /\ entrada[a].partes[x].nome # entrada[b].partes[y].nome
  /\ Len(saida.partes) >= 2

\* the first / the last non-empty value among vs, empty when there is none
RECURSIVE PrimeiroNaoVazio(_)
PrimeiroNaoVazio(vs) ==
  IF vs = <<>> THEN <<>>
  ELSE IF Head(vs) # <<>> THEN Head(vs) ELSE PrimeiroNaoVazio(Tail(vs))

RECURSIVE UltimoNaoVazio(_)
UltimoNaoVazio(vs) ==
  IF vs = <<>> THEN <<>>
  ELSE IF vs[Len(vs)] # <<>> THEN vs[Len(vs)]
  ELSE UltimoNaoVazio(SubSeq(vs, 1, Len(vs) - 1))

Objetos(lista) == Seq1([j \in 1..Len(lista) |-> lista[j].objeto_acao])

Status(lista) == Seq1([j \in 1..Len(lista) |-> lista[j].status_atual])

\* C3 as stated: objeto_acao and status_atual of the result are each the first
\* non-empty value of the field in input order.
C3_PrimeiroVence ==
  etapa = "mesclado" =>
     /\ saida.objeto_acao = PrimeiroNaoVazio(Objetos(entrada))
     /\ saida.status_atual = PrimeiroNaoVazio(Status(entrada))

\* C3 amended: objeto_acao of the result is the first non-empty value in input
\* order; status_atual is the last non-empty value in input order.
C3_ObjetoPrimeiroStatusUltimo ==
  etapa = "mesclado" =>
     /\ saida.objeto_acao = PrimeiroNaoVazio(Objetos(entrada))
     /\ saida.status_atual = UltimoNaoVazio(Status(entrada))

\* C3 witness: two records give different non-empty values for both fields
C3_Witness ==
  /\ etapa = "mesclado"
  /\ \E a, b \in 1..Len(entrada) :
        /\ a < b
        /\ entrada[a].status_atual # <<>> /\ entrada[b].status_atual # <<>>
        /\ entrada[a].status_atual # entrada[b].status_atual
  /\ \E a, b \in 1..Len(entrada) :
        /\ a < b
        /\ entrada[a].objeto_acao # <<>> /\ entrada[b].objeto_acao # <<>>
        /\ entrada[a].objeto_acao # entrada[b].objeto_acao

\* the amount a value string denotes, in hundredths, reading both notations:
\* with a comma, dots group thousands and the comma is the decimal mark
\* ("10.000,00"); without a comma, a single dot followed by one or two digits is
\* the decimal mark ("10000.00") and any other dot groups thousands
MontanteDenotado(valor) ==
  LET s == SelectSeq(Strip(valor), LAMBDA c : IsDigit(c) \/ c = 44 \/ c = 46)
      tem_virgula == \E j \in 1..Len(s) : s[j] = 44
      campos == SplitOn(s, 46)
      ponto_decimal == /\ ~tem_virgula
                       /\ Len(campos) = 2
                       /\ Len(campos[2]) \in {1, 2}
      num == IF ponto_decimal THEN s
             ELSE LET sem_pontos == SelectSeq(s, LAMBDA c : c # 46)
                  IN  Seq1([j \in 1..Len(sem_pontos) |->
                              IF sem_pontos[j] = 44 THEN 46 ELSE sem_pontos[j]])
  IN  IF num # <<>> /\ FloatOk(num) THEN Centavos(num) ELSE 0

\* the first three lower-cased words of a description
TresPalavras(descricao) == Take(Split(Lower(Strip(descricao))), 3)

\* C4: deduplicar_valores collapses any two items whose value strings denote the
\* same amount, in whatever notation, and whose descriptions share the first
\* three lower-cased words: the merged values never hold two such items.
C4_MesmoMontanteColapsa ==
  etapa = "mesclado" =>
    \A a, b \in 1..Len(saida.valores_relevantes) :
       ( /\ MontanteDenotado(saida.valores_relevantes[a].valor)
              = MontanteDenotado(saida.valores_relevantes[b].valor)
         /\ TresPalavras(saida.valores_relevantes[a].descricao)
              = TresPalavras(saida.valores_relevantes[b].descricao) ) => a = b

\* C5: merging the merged record again, alone, gives the same record on every field.
C5_MesclaIdempotente == etapa = "remesclado" => saida = anterior

\* C5 witness: a merge of records with parties, values, decisions and events of
\* both categories has been merged again
C5_Witness ==
  /\ etapa = "remesclado"
  /\ Len(anterior.partes) >= 2
  /\ Len(anterior.valores_relevantes) >= 2
  /\ Len(anterior.decisoes) >= 1
  /\ Len(anterior.historico_processual) >= 2
  /\ Len(anterior.historico_fatico) >= 2
  /\ \E a, b \in 1..Len(anterior.historico_processual) :
        /\ a # b
        /\ parse_data_brasileira(anterior.historico_processual[a].data)
             = parse_data_brasileira(anterior.historico_processual[b].data)

\* C6: merging the merged record with itself changes no set/sequence field,
\* decisoes included.
C6_MesclaConsigoNadaMuda ==
  etapa = "duplicado" =>
     /\ saida.partes = anterior.partes
     /\ saida.valores_relevantes = anterior.valores_relevantes
     /\ saida.pedidos = anterior.pedidos
     /\ saida.teses_autor = anterior.teses_autor
     /\ saida.teses_reu = anterior.teses_reu
     /\ saida.documentos_importantes = anterior.documentos_importantes
     /\ saida.historico_processual = anterior.historico_processual
     /\ saida.historico_fatico = anterior.historico_fatico
     /\ saida.historico_detalhado = anterior.historico_detalhado
     /\ saida.decisoes = anterior.decisoes

Elementos(s) == {s[j] : j \in 1..Len(s)}

\* C7 as stated: two orders of the same records give the same party entries,
\* monetary items, pedidos and teses, key documents, and the same contents of
\* historico_processual and of historico_fatico (each compared as a set).
C7_MesmoConteudoEmQualquerOrdem ==
  etapa = "permutado" =>
     /\ Elementos(saida.partes) = Elementos(anterior.partes)
     /\ Elementos(saida.valores_relevantes) = Elementos(anterior.valores_relevantes)
     /\ Elementos(saida.pedidos) = Elementos(anterior.pedidos)
     /\ Elementos(saida.teses_autor) = Elementos(anterior.teses_autor)
     /\ Elementos(saida.teses_reu) = Elementos(anterior.teses_reu)
     /\ Elementos(saida.documentos_importantes) = Elementos(anterior.documentos_importantes)
     /\ Elementos(saida.historico_processual) = Elementos(anterior.historico_processual)
     /\ Elementos(saida.historico_fatico) = Elementos(anterior.historico_fatico)

ChavesPartes(r) == {ChaveParte(r.partes[j]) : j \in 1..Len(r.partes)}

ChavesValores(r) ==
  {<<ValorFloat(Strip(r.valores_relevantes[j].valor)),
     TresPalavras(r.valores_relevantes[j].descricao)>> : j \in 1..Len(r.valores_relevantes)}

ChavesTextos(lista) == {Take(Strip(Lower(lista[j])), 50) : j \in 1..Len(lista)}

ChavesDocs(r) ==
  {Strip(Lower(r.documentos_importantes[j].tipo)) : j \in 1..Len(r.documentos_importantes)}

ChavesEventos(lista) ==
  {Lower(lista[j].data \o <<124>> \o Take(DescEvento(lista[j]), 30)) : j \in 1..Len(lista)}

\* C7 amended: two orders of the same records give the same set of keys in every
\* deduplicated field (normalised party names, (amount, three-word) value keys,
\* 50-character keys of pedidos and teses, document types, (date, 30-character)
\* event keys of the two histories taken together) and so the same number of
\* entries; the entry kept for a key, the order of the entries and the history
\* an event key lands in follow the input order.
C7_MesmasChavesEmQualquerOrdem ==
  etapa = "permutado" =>
     /\ ChavesPartes(saida) = ChavesPartes(anterior)
     /\ Len(saida.partes) = Len(anterior.partes)
     /\ ChavesValores(saida) = ChavesValores(anterior)
     /\ Len(saida.valores_relevantes) = Len(anterior.valores_relevantes)
     /\ ChavesTextos(saida.pedidos) = ChavesTextos(anterior.pedidos)
     /\ Len(saida.pedidos) = Len(anterior.pedidos)
     /\ ChavesTextos(saida.teses_autor) = ChavesTextos(anterior.teses_autor)
     /\ ChavesTextos(saida.teses_reu) = ChavesTextos(anterior.teses_reu)
     /\ ChavesDocs(saida) = ChavesDocs(anterior)
     /\ Len(saida.documentos_importantes) = Len(anterior.documentos_importantes)
     /\ ChavesEventos(saida.historico_detalhado) = ChavesEventos(anterior.historico_detalhado)
     /\ Len(saida.historico_detalhado) = Len(anterior.historico_detalhado)

\* C7 witness: a reordering that changes the merged record has been merged
C7_Witness ==
  /\ etapa = "permutado"
  /\ Len(entrada) >= 2
  /\ saida.partes # anterior.partes
  /\ Elementos(saida.historico_fatico) # Elementos(anterior.historico_fatico)


\* C8: when the files have been read, textos_unicos holds exactly one document
\* for the fingerprint of every file with text and nothing else, and where an
\* important and a normal file share a fingerprint the document kept is an
\* important file's; this for every enumeration order of the folder.
C8_UmDocumentoPorHash ==
  (dpc = "fim" /\ pdfs # <<>>) =>
     /\ \A a \in 1..Len(pdfs) :
           ~SemTexto(pdfs[a]) =>
              /\ Cardinality({b \in 1..Len(textos_unicos) :
                                 textos_unicos[b].hash = TextoHash(pdfs[a])}) = 1
              /\ EhImportante(pdfs[a]) =>
                    \A b \in 1..Len(textos_unicos) :
                       textos_unicos[b].hash = TextoHash(pdfs[a]) =>
                          /\ textos_unicos[b].importante
                          /\ \E c \in 1..Len(pdfs) :
                                /\ EhImportante(pdfs[c])
                                /\ textos_unicos[b] = EntradaTexto(pdfs[c], TRUE)
     /\ \A b \in 1..Len(textos_unicos) :
           \E a \in 1..Len(pdfs) :
              /\ ~SemTexto(pdfs[a])
              /\ textos_unicos[b] = EntradaTexto(pdfs[a], EhImportante(pdfs[a]))
     /\ Elementos(textos_ordenados) = Elementos(textos_unicos)
     /\ Len(textos_ordenados) = Len(textos_unicos)

\* C8 witness: an important and a normal file with the same fingerprint were read
C8_Witness ==
  /\ dpc = "fim"
  /\ \E a, b \in 1..Len(pdfs) :
        /\ ~SemTexto(pdfs[a])
        /\ TextoHash(pdfs[a]) = TextoHash(pdfs[b])
        /\ EhImportante(pdfs[a]) /\ ~EhImportante(pdfs[b])
  /\ Len(textos_unicos) >= 1

\* C9: every order in which the same files are enumerated yields the same kept
\* documents (name and text) in the same combined order.
C9_MesmoResultadoEmQualquerOrdem ==
  dpc = "fim" =>
     \A p \in Permutations(1..Len(pdfs)) :
        TextosDaOrdem(Seq1([j \in 1..Len(pdfs) |-> pdfs[p[j]]])) = textos_ordenados


(***************************************************************************)
(* chamar_google: the client-side rate limiter                             *)
(*                                                                         *)
(* One caller at a time (processar_processo runs the chunks one after the  *)
(* other, and the window starts one run at a time).  time.sleep(x) lasts x.*)
(***************************************************************************)

\* line 777: the near-limit threshold
limite_requisicoes == 14

\* lines 772, 778: the length of the window, in seconds
janela == 60

\* lines 787-788: the least time between two requests
pausa_minima == 4

\* line 823: the wait after a 429
espera_429 == 60

\* line 821: a 429 is retried while retry_count is below this
max_retry_429 == 3

\* line 844: a timeout is retried while retry_count is below this
max_retry_timeout == 2

\* line 809: requests.post(..., timeout=180)
timeout_requisicao == 180

\* the clock stops new calls past this time
MaxTempo == 130

\* seconds between two calls of chamar_llm (the rest of the work on a chunk)
Intervalos == {7, 61}

\* seconds a response takes to arrive
Latencias == {0, 2}

\* mutant of AtingiuLimite: the comparison is off by one
AtingiuLimiteEstrito(request_count) == request_count > limite_requisicoes

\* line 777
AtingiuLimite(request_count) == request_count >= limite_requisicoes

\* line 778
wait_time(current, minute_start) == janela - (current - minute_start) + 1

\* mutant of EsperaPausa: no pause between requests
EsperaPausaNenhuma(current, last_request) == 0

\* lines 786-788: the seconds slept before the request, 0 when the test fails
EsperaPausa(current, last_request) ==
  LET time_since_last == current - last_request
  IN  IF time_since_last < pausa_minima /\ last_request > 0
      THEN pausa_minima - time_since_last
      ELSE 0

\* mutant of Repete429: one more retry
Repete429MaisUma(retries) == retries <= max_retry_429

\* line 821
Repete429(retries) == retries < max_retry_429

\* mutant of RepeteTimeout: two more retries
RepeteTimeoutMaisDuas(retries) == retries < max_retry_timeout + 2

\* line 844
RepeteTimeout(retries) == retries < max_retry_timeout

\* time.time() counts from the epoch: the first call finds the first window over
InitGoogle ==
  /\ agora = janela + 1
  /\ google_last_request = 0 /\ google_request_count = 0 /\ google_minute_start = 0
  /\ gpc = "ocioso" /\ current_time = 0 /\ retry_count = 0
  /\ enviados_janela = 0 /\ janela_cheia = -1 /\ apos_cheia = <<>>
  /\ intervalo_envios = -1 /\ primeiro_envio = -1 /\ total_envios = 0
  /\ tentativas = 0 /\ respostas = <<>> /\ fim_espera = -1 /\ reenvio = <<>>
  /\ DedupParado /\ ChunksParado /\ MesclaParada /\ ExecParado /\ TextoParado /\ ConcParado /\ NomeParado /\ ReparoParado /\ FormasParado

\* between two calls
PassaTempo(d) ==
  /\ gpc = "ocioso"
  /\ agora + d <= MaxTempo
  /\ agora' = agora + d
  /\ UNCHANGED <<google_last_request, google_request_count, google_minute_start, gpc,
                 current_time, retry_count, enviados_janela, janela_cheia, apos_cheia,
                 intervalo_envios, primeiro_envio, total_envios,
                 tentativas, respostas, fim_espera, reenvio,
                 vars_dedup, vars_chunks, vars_mescla, vars_exec, vars_texto, vars_conc, vars_nome, vars_reparo, vars_formas>>

\* line 947: chamar_llm calls chamar_google(prompt, config), retry_count = 0
Chamada ==
  /\ gpc = "ocioso"
  /\ agora <= MaxTempo
  /\ gpc' = "entrada"
  /\ retry_count' = 0
  /\ tentativas' = 0 /\ respostas' = <<>> /\ fim_espera' = -1 /\ reenvio' = <<>>
  /\ UNCHANGED <<agora, google_last_request, google_request_count, google_minute_start,
                 current_time, enviados_janela, janela_cheia, apos_cheia,
                 intervalo_envios, primeiro_envio, total_envios,
                 vars_dedup, vars_chunks, vars_mescla, vars_exec, vars_texto, vars_conc, vars_nome, vars_reparo, vars_formas>>

\* lines 769-774: the clock is read; a window older than 60 s is restarted
Entrada ==
  /\ gpc = "entrada"
  /\ current_time' = agora
  /\ IF agora - google_minute_start > janela
     THEN /\ google_request_count' = 0
          /\ google_minute_start' = agora
          /\ enviados_janela' = 0
     ELSE UNCHANGED <<google_request_count, google_minute_start, enviados_janela>>
  /\ gpc' = "limite"
  /\ UNCHANGED <<agora, google_last_request, retry_count, janela_cheia, apos_cheia,
                 intervalo_envios, primeiro_envio, total_envios,
                 tentativas, respostas, fim_espera, reenvio,
                 vars_dedup, vars_chunks, vars_mescla, vars_exec, vars_texto, vars_conc, vars_nome, vars_reparo, vars_formas>>

\* lines 777-783: at the threshold the call sleeps to the end of the window plus
\* one second, then restarts the counter and the window
Limite ==
  /\ gpc = "limite"
  /\ IF /\ AtingiuLimite(google_request_count)
        /\ wait_time(current_time, google_minute_start) > 0
     THEN /\ agora' = agora + wait_time(current_time, google_minute_start)
          /\ google_request_count' = 0
          /\ google_minute_start' = agora + wait_time(current_time, google_minute_start)
          /\ enviados_janela' = 0
     ELSE UNCHANGED <<agora, google_request_count, google_minute_start, enviados_janela>>
  /\ gpc' = "pausa"
  /\ UNCHANGED <<google_last_request, current_time, retry_count, janela_cheia, apos_cheia,
                 intervalo_envios, primeiro_envio, total_envios,
                 tentativas, respostas, fim_espera, reenvio,
                 vars_dedup, vars_chunks, vars_mescla, vars_exec, vars_texto, vars_conc, vars_nome, vars_reparo, vars_formas>>

\* lines 786-788: the spacing, measured from the clock value read at line 769
Pausa ==
  /\ gpc = "pausa"
  /\ agora' = agora + EsperaPausa(current_time, google_last_request)
  /\ gpc' = "envia"
  /\ UNCHANGED <<google_last_request, google_request_count, google_minute_start,
                 current_time, retry_count, enviados_janela, janela_cheia, apos_cheia,
                 intervalo_envios, primeiro_envio, total_envios,
                 tentativas, respostas, fim_espera, reenvio,
                 vars_dedup, vars_chunks, vars_mescla, vars_exec, vars_texto, vars_conc, vars_nome, vars_reparo, vars_formas>>

\* lines 796-799: the request is counted and sent
Envia ==
  /\ gpc = "envia"
  /\ google_last_request' = agora
  /\ google_request_count' = google_request_count + 1
  /\ enviados_janela' = enviados_janela + 1
  /\ apos_cheia' = IF janela_cheia >= 0
                   THEN <<janela_cheia, agora, google_request_count + 1>>
                   ELSE <<>>
  /\ janela_cheia' = IF enviados_janela + 1 >= limite_requisicoes
                     THEN google_minute_start
                     ELSE -1
  /\ intervalo_envios' = IF total_envios > 0 THEN agora - google_last_request ELSE -1
  /\ primeiro_envio' = IF total_envios = 0 THEN agora ELSE primeiro_envio
  /\ total_envios' = total_envios + 1
  /\ tentativas' = tentativas + 1
  /\ reenvio' = IF respostas # <<>> /\ respostas[Len(respostas)] = "429"
                THEN <<google_request_count, google_minute_start, fim_espera>>
                ELSE <<>>
  /\ gpc' = "resposta"
  /\ UNCHANGED <<agora, google_minute_start, current_time, retry_count, respostas, fim_espera,
                 vars_dedup, vars_chunks, vars_mescla, vars_exec, vars_texto, vars_conc, vars_nome, vars_reparo, vars_formas>>

\* lines 812-818, 831-840, 846-849: a 200, a 400, another status or another
\* exception ends the call
RespostaFinal(d) ==
  /\ gpc = "resposta"
  /\ agora' = agora + d
  /\ gpc' = "ocioso"
  /\ respostas' = Append(respostas, "final")
  /\ UNCHANGED <<google_last_request, google_request_count, google_minute_start,
                 current_time, retry_count, enviados_janela, janela_cheia, apos_cheia,
                 intervalo_envios, primeiro_envio, total_envios,
                 tentativas, fim_espera, reenvio,
                 vars_dedup, vars_chunks, vars_mescla, vars_exec, vars_texto, vars_conc, vars_nome, vars_reparo, vars_formas>>

\* lines 820-829: a 429 waits 60 s, restarts the counter and the window and calls
\* again, up to the retry bound
Resposta429(d) ==
  /\ gpc = "resposta"
  /\ respostas' = Append(respostas, "429")
  /\ IF Repete429(retry_count)
     THEN /\ agora' = agora + d + espera_429
          /\ google_request_count' = 0
          /\ google_minute_start' = agora + d + espera_429
          /\ enviados_janela' = 0
          /\ retry_count' = retry_count + 1
          /\ fim_espera' = agora + d + espera_429
          /\ gpc' = "entrada"
     ELSE /\ agora' = agora + d
          /\ gpc' = "ocioso"
          /\ UNCHANGED <<google_request_count, google_minute_start, enviados_janela,
                         retry_count, fim_espera>>
  /\ UNCHANGED <<google_last_request, current_time, janela_cheia, apos_cheia,
                 intervalo_envios, primeiro_envio, total_envios, tentativas, reenvio,
                 vars_dedup, vars_chunks, vars_mescla, vars_exec, vars_texto, vars_conc, vars_nome, vars_reparo, vars_formas>>

\* lines 842-845: a timeout calls again at once, up to the retry bound
RespostaTimeout ==
  /\ gpc = "resposta"
  /\ agora' = agora + timeout_requisicao
  /\ respostas' = Append(respostas, "timeout")
  /\ IF RepeteTimeout(retry_count)
     THEN /\ retry_count' = retry_count + 1
          /\ gpc' = "entrada"
     ELSE /\ gpc' = "ocioso"
          /\ UNCHANGED retry_count
  /\ UNCHANGED <<google_last_request, google_request_count, google_minute_start,
                 current_time, enviados_janela, janela_cheia, apos_cheia,
                 intervalo_envios, primeiro_envio, total_envios,
                 tentativas, fim_espera, reenvio,
                 vars_dedup, vars_chunks, vars_mescla, vars_exec, vars_texto, vars_conc, vars_nome, vars_reparo, vars_formas>>

NextGoogle ==
  \/ \E d \in Intervalos : PassaTempo(d)
  \/ Chamada
  \/ Entrada
  \/ Limite
  \/ Pausa
  \/ Envia
  \/ \E d \in Latencias : RespostaFinal(d)
  \/ \E d \in Latencias : Resposta429(d)
  \/ RespostaTimeout

SpecGoogle == InitGoogle /\ [][NextGoogle]_vars

\* C10: the requests sent since the window was last started never exceed the
\* threshold and are what the counter holds; the first request sent after a
\* window was filled is sent more than 60 s after that window started, and the
\* counter has restarted (it counts that request alone).
C10_JanelaNuncaExcedeLimite ==
  /\ enviados_janela <= limite_requisicoes
  /\ google_request_count = enviados_janela
  /\ apos_cheia # <<>> =>
        /\ apos_cheia[2] > apos_cheia[1] + janela
        /\ apos_cheia[3] = 1

\* C10 witness: a call that began inside a filled window, and was not a retry,
\* has sent its request
C10_Witness ==
  /\ apos_cheia # <<>>
  /\ retry_count = 0
  /\ gpc = "resposta"
  /\ google_last_request = apos_cheia[2]
  /\ current_time <= apos_cheia[1] + janela

\* C11: two consecutive requests are sent at least 4 s apart, whether the
\* second is a retry or belongs to a later call, and so the M requests sent so
\* far span at least 4*(M-1) s from the first send to the last.
C11_EspacamentoMinimo ==
  /\ intervalo_envios # -1 => intervalo_envios >= pausa_minima
  /\ total_envios >= 1 =>
        google_last_request - primeiro_envio >= pausa_minima * (total_envios - 1)

\* C11 witness: a call that found the last request less than 4 s old has slept
\* the rest of the 4 s and sent the third or a later request
C11_Witness ==
  /\ gpc = "resposta"
  /\ total_envios >= 3
  /\ current_time - (google_last_request - intervalo_envios) < pausa_minima
  /\ current_time - (google_last_request - intervalo_envios) > 0
  /\ intervalo_envios = pausa_minima

So429 == respostas # <<>> /\ \A j \in 1..Len(respostas) : respostas[j] = "429"

SoTimeout == respostas # <<>> /\ \A j \in 1..Len(respostas) : respostas[j] = "timeout"

\* a send that followed a 429 found the counter at 0 and the window started when
\* the 60 s sleep ended
ReenvioComLimitadorReiniciado ==
  reenvio # <<>> => reenvio[1] = 0 /\ reenvio[2] = reenvio[3] /\ reenvio[3] >= 0

\* C12, as stated: in one call of chamar_llm, at most 3 requests are sent when
\* every response is a 429 and at most 2 when every request times out, and a
\* retry after a 429 is sent with the counter at 0 and the window restarted.
C12_TresTentativas429DuasTimeout ==
  /\ So429 => tentativas <= 3
  /\ SoTimeout => tentativas <= 2
  /\ ReenvioComLimitadorReiniciado

\* C12, amended: 3 and 2 bound the retries, so at most 4 requests are sent
\* when every response is a 429 and at most 3 when every request times out;
\* a retry after a 429 is sent with the counter at 0 and the window restarted
\* at the end of the 60 s sleep.
C12_TresRetentativas429DuasTimeout ==
  /\ So429 => tentativas <= max_retry_429 + 1
  /\ SoTimeout => tentativas <= max_retry_timeout + 1
  /\ ReenvioComLimitadorReiniciado

\* C12 witness: three 429 in a row, and the fourth request of the call is sent
\* after the third 60 s sleep
C12_Witness ==
  /\ gpc = "resposta"
  /\ respostas = <<"429", "429", "429">>
  /\ tentativas = max_retry_429 + 1
  /\ reenvio = <<0, agora, agora>>

RECURSIVE DadosExtraidos(_)
\* the records of the chunks that parsed, in chunk order
DadosExtraidos(ds) ==
  IF ds = <<>> THEN <<>>
  ELSE IF ds[1].tipo = "extraido"
       THEN <<ds[1].dado>> \o DadosExtraidos(Tail(ds))
       ELSE DadosExtraidos(Tail(ds))

MaxChunksExec == 2

\* mutant of SemCredencial: the credential is never tested
SemCredencialNunca(m, c) == FALSE

\* lines 765, 854, 884, 914 and 1723-1734: `not config.api_<backend>`
SemCredencial(m, c) == m \in Nuvem /\ c[m] = ""

\* mutant of EscreveRelatorio: the report is written whatever was found
EscreveRelatorioSempre(numero, ext) == TRUE

\* lines 1773 and 1838: the report is written only when there is a case number
\* or an extraction
EscreveRelatorio(numero, ext) == numero \/ ext

\* line 1563 (GUI) or 1835 (CLI): the Config is loaded; the folder, its text and
\* the backend's behaviour are inputs
InitExec ==
  /\ via \in {"gui", "cli"}
  /\ config \in [Nuvem -> {"", "chave"}]
  /\ modo \in Modos
  /\ pasta \in {"ausente", "sem_pdf", "sem_texto", "com_texto"}
  /\ (via = "gui" => pasta # "ausente")
  /\ tem_numero \in BOOLEAN
  /\ ollama_ok \in BOOLEAN
  /\ processando = FALSE /\ epc = "ocioso" /\ chunks_restantes = 0
  /\ tem_extracao = FALSE /\ erro = "" /\ relatorio = FALSE
  /\ pedidos_http = 0 /\ chamadas_llm = 0 /\ vazia_no_pedido = FALSE
  /\ salvo_durante = FALSE
  /\ rejeitado = FALSE /\ apos_rejeicao = FALSE /\ destinos = {}
  /\ DedupParado /\ ChunksParado /\ MesclaParada /\ GoogleParado /\ TextoParado /\ ConcParado /\ NomeParado /\ ReparoParado /\ FormasParado

\* lines 1716-1746: the click on "Gerar Sintese" with mode m selected
IniciarProcessamento(m) ==
  /\ via = "gui"
  /\ ~processando
  /\ modo' = m
  /\ vazia_no_pedido' = (m \in Nuvem /\ config[m] = "")
  /\ chunks_restantes' = 0 /\ tem_extracao' = FALSE /\ relatorio' = FALSE
  /\ pedidos_http' = 0 /\ chamadas_llm' = 0 /\ salvo_durante' = FALSE
  /\ rejeitado' = FALSE /\ apos_rejeicao' = FALSE /\ destinos' = {}
  /\ IF SemCredencial(m, config)
     THEN /\ erro' = "credencial"
          /\ epc' = "ocioso"
          /\ UNCHANGED processando
     ELSE /\ erro' = ""
          /\ processando' = TRUE
          /\ epc' = "thread"
  /\ UNCHANGED <<via, config, pasta, tem_numero, ollama_ok,
                 vars_dedup, vars_chunks, vars_mescla, vars_google, vars_texto, vars_conc, vars_nome, vars_reparo, vars_formas>>

\* lines 1705-1712: "Salvar" in the window of abrir_config; the button that opens
\* it is never disabled
Salvar(c) ==
  /\ via = "gui"
  /\ config' = c
  /\ salvo_durante' = (salvo_durante \/ (epc \in {"thread", "chunks", "relatorio"} /\ c # config))
  /\ UNCHANGED <<via, modo, pasta, tem_numero, ollama_ok, processando, epc, chunks_restantes,
                 tem_extracao, erro, relatorio, pedidos_http, chamadas_llm, vazia_no_pedido,
                 rejeitado, apos_rejeicao, destinos,
                 vars_dedup, vars_chunks, vars_mescla, vars_google, vars_texto, vars_conc, vars_nome, vars_reparo, vars_formas>>

\* lines 1825-1836: the command line; a missing folder exits
ExecutarCLI ==
  /\ via = "cli" /\ epc = "ocioso"
  /\ vazia_no_pedido' = (modo \in Nuvem /\ config[modo] = "")
  /\ IF pasta = "ausente"
     THEN erro' = "pasta" /\ epc' = "fim"
     ELSE erro' = "" /\ epc' = "thread"
  /\ UNCHANGED <<via, config, modo, pasta, tem_numero, ollama_ok, processando,
                 chunks_restantes, tem_extracao, relatorio, pedidos_http, chamadas_llm,
                 salvo_durante, rejeitado, apos_rejeicao, destinos,
                 vars_dedup, vars_chunks, vars_mescla, vars_google, vars_texto, vars_conc, vars_nome, vars_reparo, vars_formas>>

\* lines 1755-1766 (GUI, local mode: Ollama must answer) and 980-1086: no PDF or
\* no text returns the empty resultado; else the text is split into n chunks
ProcessarInicio(n) ==
  /\ epc = "thread"
  /\ IF via = "gui" /\ modo = "local" /\ ~ollama_ok
     THEN /\ erro' = "ollama" /\ epc' = "fim" /\ processando' = FALSE
          /\ UNCHANGED chunks_restantes
     ELSE IF pasta \in {"sem_pdf", "sem_texto"}
     THEN /\ epc' = "relatorio"
          /\ UNCHANGED <<erro, processando, chunks_restantes>>
     ELSE /\ epc' = "chunks" /\ chunks_restantes' = n
          /\ UNCHANGED <<erro, processando>>
  /\ UNCHANGED <<via, config, modo, pasta, tem_numero, ollama_ok, tem_extracao, relatorio,
                 pedidos_http, chamadas_llm, vazia_no_pedido, salvo_durante,
                 rejeitado, apos_rejeicao, destinos,
                 vars_dedup, vars_chunks, vars_mescla, vars_google, vars_texto, vars_conc, vars_nome, vars_reparo, vars_formas>>

\* what a backend does with one request: a reply that parses, a reply that does
\* not (empty, no JSON, another status, an exception), or HTTP 401/403
Respostas == {"ok", "invalida", "401"}

\* lines 736-753, 839-849, 872-879: an Ollama that is not running gives an
\* exception, and only a backend with a credential can refuse it
RespostaPossivel(r, m, alcancavel) ==
  /\ (m = "local" /\ ~alcancavel => r = "invalida")
  /\ (r = "401" => m \in Nuvem)

\* lines 1087-1141 with 942-955: one chunk.  A backend without its credential
\* raises ValueError before any request (lines 765-766, 854-855, 884-885,
\* 914-915); nothing catches it in processar_processo, processar catches it at
\* line 1805 and __main__ does not.  Else the request is sent to the backend of
\* the mode; every status other than 200 is printed and gives "" (lines 839,
\* 847-849, 876-879), which the loop skips like any reply without JSON.
ChamaLLM(r) ==
  /\ epc = "chunks" /\ chunks_restantes > 0
  /\ RespostaPossivel(r, modo, ollama_ok)
  /\ chamadas_llm' = chamadas_llm + 1
  /\ IF SemCredencial(modo, config)
     THEN /\ erro' = "ValueError" /\ epc' = "fim" /\ processando' = FALSE
          /\ tem_extracao' = FALSE
          /\ UNCHANGED <<pedidos_http, chunks_restantes, rejeitado, apos_rejeicao, destinos>>
     ELSE /\ pedidos_http' = pedidos_http + 1
          /\ destinos' = destinos \cup {modo}
          /\ apos_rejeicao' = (apos_rejeicao \/ rejeitado)
          /\ rejeitado' = (rejeitado \/ r = "401")
          /\ tem_extracao' = (tem_extracao \/ r = "ok")
          /\ chunks_restantes' = chunks_restantes - 1
          /\ UNCHANGED <<erro, epc, processando>>
  /\ UNCHANGED <<via, config, modo, pasta, tem_numero, ollama_ok, relatorio,
                 vazia_no_pedido, salvo_durante,
                 vars_dedup, vars_chunks, vars_mescla, vars_google, vars_texto, vars_conc, vars_nome, vars_reparo, vars_formas>>

\* lines 1143-1158: processar_processo returns
FimChunks ==
  /\ epc = "chunks" /\ chunks_restantes = 0
  /\ epc' = "relatorio"
  /\ UNCHANGED <<via, config, modo, pasta, tem_numero, ollama_ok, processando,
                 chunks_restantes, tem_extracao, erro, relatorio, pedidos_http, chamadas_llm,
                 vazia_no_pedido, salvo_durante,
                 rejeitado, apos_rejeicao, destinos,
                 vars_dedup, vars_chunks, vars_mescla, vars_google, vars_texto, vars_conc, vars_nome, vars_reparo, vars_formas>>

\* lines 1773-1815 and 1838-1841: the report, then the end of the run; the case
\* number comes from the text, so a run that returned early has none
Relatorio ==
  /\ epc = "relatorio"
  /\ relatorio' = EscreveRelatorio(tem_numero /\ pasta = "com_texto", tem_extracao)
  /\ epc' = "fim"
  /\ processando' = FALSE
  /\ UNCHANGED <<via, config, modo, pasta, tem_numero, ollama_ok, chunks_restantes,
                 tem_extracao, erro, pedidos_http, chamadas_llm, vazia_no_pedido,
                 salvo_durante, rejeitado, apos_rejeicao, destinos,
                 vars_dedup, vars_chunks, vars_mescla, vars_google, vars_texto, vars_conc, vars_nome, vars_reparo, vars_formas>>

NextExec ==
  \/ \E m \in Modos : IniciarProcessamento(m)
  \/ \E c \in [Nuvem -> {"", "chave"}] : Salvar(c)
  \/ ExecutarCLI
  \/ \E n \in 1..MaxChunksExec : ProcessarInicio(n)
  \/ \E r \in Respostas : ChamaLLM(r)
  \/ FimChunks
  \/ Relatorio

SpecExecucao == InitExec /\ [][NextExec]_vars

\* C14: when the credential of the selected cloud backend is empty as the run
\* is asked for, no request is ever sent to the backend, chamar_llm is entered
\* at most once (no retry), and the run has neither extraction nor report.  In
\* the GUI the click is refused and no thread starts; on the command line the
\* first call of chamar_llm raises ValueError and the run ends there.
C14_SemCredencialSemPedido ==
  vazia_no_pedido =>
    /\ pedidos_http = 0
    /\ chamadas_llm <= 1
    /\ ~tem_extracao /\ ~relatorio
    /\ via = "gui" => erro = "credencial" /\ ~processando /\ epc = "ocioso" /\ chamadas_llm = 0
    /\ via = "cli" /\ chamadas_llm = 1 => erro = "ValueError" /\ epc = "fim"

\* C14 witness: a command-line run in google mode with no key has reached its
\* first chunk and ended on the ValueError
C14_Witness ==
  /\ via = "cli" /\ modo = "google" /\ config["google"] = ""
  /\ vazia_no_pedido
  /\ chamadas_llm = 1 /\ pedidos_http = 0
  /\ erro = "ValueError" /\ epc = "fim"

\* C15: every run whose folder exists and whose configuration raised no error
\* ends with a report written, the run in which no chunk parsed and no case
\* number was found included.
C15_RelatorioSempreEscrito ==
  epc = "fim" /\ pasta # "ausente" /\ erro = "" => relatorio

\* C19: no save of the configuration window changes the Config while a
\* processing thread is running.
C19_ConfigSoLeituraDuranteRun == ~salvo_durante

(***************************************************************************)
(* processar_processo, lines 1048-1076: the combined text goes through     *)
(* detectar_sistema and dividir_em_chunks                                  *)
(***************************************************************************)

\* pages of one combined text
MaxPaginas == 3

\* Config.chunk_size_local (line 63), scaled down
chunk_size_local == 2

\* Config.chunk_size_cloud (line 64), scaled down
chunk_size_cloud == 4

\* Config.chars_per_token (line 65), scaled down
chars_per_token == 2

\* texto[:5000] of line 157, scaled down
tamanho_prefixo == 40

\* page texts: blank, with whitespace at the ends, with the signatures
Trechos ==
  {
    <<>>,  \* ''
    <<32>>,  \* ' '
    <<97>>,  \* 'a'
    <<32, 98, 32, 99>>,  \* ' b c'
    <<100, 101, 10>>,  \* 'de\n'
    <<83, 65, 74>>,  \* 'SAJ'
    <<80, 114, 111, 106, 117, 100, 105>>,  \* 'Projudi'
    <<112, 106, 101, 46, 116, 106, 109, 103>>,  \* 'pje.tjmg'
    <<80, 225, 103, 105, 110, 97, 32, 100, 101, 32, 83, 101, 112, 97, 114, 97, 231, 227, 111>>,  \* 'Página de Separação'
    <<101, 118, 101, 110, 116, 111>>,  \* 'evento'
    <<80, 74, 101, 32, 45, 32, 80, 114, 111, 99, 101, 115, 115, 111, 32, 74, 117, 100, 105, 99, 105, 97, 108, 32, 69, 108, 101, 116, 114, 244, 110, 105, 99, 111>>  \* 'PJe - Processo Judicial Eletrônico'
  }

\* line 301: "\n[PÁGINA <k>]\n"
Marca(k) == <<10, 91, 80, 193, 71, 73, 78, 65, 32>> \o <<48 + k>> \o <<93, 10>>

\* lines 301, 306, 1048: the pages after the first one follow their marker
RECURSIVE JuntaPaginas(_, _)
JuntaPaginas(ps, k) ==
  IF k > Len(ps) THEN <<>>
  ELSE (IF k = 1 THEN <<>> ELSE Marca(k)) \o ps[k] \o JuntaPaginas(ps, k + 1)

\* line 321, \d+ : the first position at or after j that holds no digit
RECURSIVE FimDigitos(_, _)
FimDigitos(t, j) == IF j <= Len(t) /\ IsDigit(t[j]) THEN FimDigitos(t, j + 1) ELSE j

\* line 321: the length of the match of \n\[PÁGINA \d+\]\n at position i, 0 if none
Marcador(t, i) ==
  LET inicio == <<10, 91, 80, 193, 71, 73, 78, 65, 32>>
      d == i + Len(inicio)
      k == FimDigitos(t, d)
  IN  IF /\ d - 1 <= Len(t)
         /\ SubSeq(t, i, d - 1) = inicio
         /\ k > d /\ k + 1 <= Len(t)
         /\ t[k] = 93 /\ t[k + 1] = 10
      THEN k + 2 - i
      ELSE 0

\* line 321: re.split on the page marker, from left to right
RECURSIVE SplitPaginas(_, _, _)
SplitPaginas(t, ini, i) ==
  IF i > Len(t) THEN <<SubSeq(t, ini, Len(t))>>
  ELSE IF Marcador(t, i) > 0
       THEN <<SubSeq(t, ini, i - 1)>>
              \o SplitPaginas(t, i + Marcador(t, i), i + Marcador(t, i))
       ELSE SplitPaginas(t, ini, i + 1)

\* line 322
ComTexto(p) == Strip(p) # <<>>

\* lines 312-317
max_chars(m) ==
  (IF m \in Nuvem THEN chunk_size_cloud ELSE chunk_size_local) * chars_per_token

\* mutant of Cabe: the page is joined when the sum equals the budget
CabeComIgual(chunk_atual, pagina, n) == Len(chunk_atual) + Len(pagina) <= n

\* line 326
Cabe(chunk_atual, pagina, n) == Len(chunk_atual) + Len(pagina) < n

\* lines 334-335: the slices of a page longer than the budget; origem is the
\* page they come from
RECURSIVE Fatias(_, _, _, _)
Fatias(pagina, j, i, n) ==
  IF i > Len(pagina) THEN <<>>
  ELSE <<[texto |-> SubSeq(pagina, i, Min(i + n - 1, Len(pagina))), origem |-> <<j>>]>>
         \o Fatias(pagina, j, i + n, n)

\* lines 329-330, 340-341: the current chunk is kept if it is not blank
Guarda(feitos, chunk_atual, origem) ==
  IF Strip(chunk_atual) # <<>>
  THEN Append(feitos, [texto |-> Strip(chunk_atual), origem |-> origem])
  ELSE feitos

\* lines 324-341: the loop over the pages, from page j on; origem holds the
\* pages that make up chunk_atual
RECURSIVE DivideLoop(_, _, _, _, _, _)
DivideLoop(paginas, j, chunk_atual, origem, feitos, n) ==
  IF j > Len(paginas) THEN Guarda(feitos, chunk_atual, origem)
  ELSE IF Cabe(chunk_atual, paginas[j], n)
       THEN DivideLoop(paginas, j + 1, chunk_atual \o <<10>> \o paginas[j],
                       Append(origem, j), feitos, n)
       ELSE IF Len(paginas[j]) > n
            THEN DivideLoop(paginas, j + 1, <<>>, <<>>,
                            Guarda(feitos, chunk_atual, origem) \o Fatias(paginas[j], j, 1, n), n)
            ELSE DivideLoop(paginas, j + 1, paginas[j], <<j>>,
                            Guarda(feitos, chunk_atual, origem), n)

\* mutant of ChunksOuTexto: the empty list is returned as it is
ChunksSemReserva(cs, t, n) == cs

\* line 343
ChunksOuTexto(cs, t, n) ==
  IF cs # <<>> THEN cs ELSE <<[texto |-> Take(t, n), origem |-> <<>>]>>

\* lines 309-343; each chunk is its text and, for the properties, the pages
\* (positions in the list of line 322) it was made of
dividir_em_chunks(t, m) ==
  ChunksOuTexto(
    DivideLoop(SelectSeq(SplitPaginas(t, 1, 1), ComTexto), 1, <<>>, <<>>, <<>>, max_chars(m)),
    t, max_chars(m))

\* lines 155-168
detectar_sistema(t) ==
  LET texto_lower == Lower(Take(t, tamanho_prefixo))
  IN  IF \/ Contains(texto_lower, <<112, 106, 101, 32, 45, 32, 112, 114, 111, 99, 101, 115, 115, 111, 32, 106, 117, 100, 105, 99, 105, 97, 108, 32, 101, 108, 101, 116, 114, 244, 110, 105, 99, 111>>)
         \/ Contains(texto_lower, <<112, 106, 101, 46, 116, 106, 109, 103>>)
      THEN "pje"
      ELSE IF /\ Contains(texto_lower, <<112, 225, 103, 105, 110, 97, 32, 100, 101, 32, 115, 101, 112, 97, 114, 97, 231, 227, 111>>)
              /\ Contains(texto_lower, <<101, 118, 101, 110, 116, 111>>)
      THEN "eproc"
      ELSE IF Contains(texto_lower, <<112, 114, 111, 106, 117, 100, 105>>)
      THEN "projudi"
      ELSE IF Contains(texto_lower, <<115, 97, 106>>) \/ Contains(texto_lower, <<101, 115, 97, 106>>)
      THEN "saj"
      ELSE "generico"

\* lines 1055-1060 with 173, 237, 262: DadosProcesso.sistema as set by the
\* extractor that the detected system selects
SistemaDosDados(s) ==
  IF s = "pje" THEN "pje" ELSE IF s = "eproc" THEN "eproc" ELSE "generico"

\* line 1048: the combined text of the pages, for either class of backend
InitTexto ==
  /\ trechos \in UNION { [1..m -> Trechos] : m \in 1..MaxPaginas }
  /\ texto_completo = JuntaPaginas(trechos, 1)
  /\ modo_divisao \in {"local", "google"}
  /\ tpc = "inicio"
  /\ sistema = "" /\ dados_sistema = "" /\ chunks = <<>> /\ prompts = <<>>
  /\ DedupParado /\ ChunksParado /\ MesclaParada /\ GoogleParado /\ ExecParado /\ ConcParado /\ NomeParado /\ ReparoParado /\ FormasParado

\* lines 1052-1060
Detecta ==
  /\ tpc = "inicio"
  /\ sistema' = detectar_sistema(texto_completo)
  /\ dados_sistema' = SistemaDosDados(detectar_sistema(texto_completo))
  /\ tpc' = "detectado"
  /\ UNCHANGED <<trechos, texto_completo, modo_divisao, chunks, prompts,
                 vars_dedup, vars_chunks, vars_mescla, vars_google, vars_exec, vars_conc, vars_nome, vars_reparo, vars_formas>>

\* line 1076
Divide ==
  /\ tpc = "detectado"
  /\ chunks' = dividir_em_chunks(texto_completo, modo_divisao)
  /\ tpc' = "dividido"
  /\ UNCHANGED <<trechos, texto_completo, modo_divisao, sistema, dados_sistema, prompts,
                 vars_dedup, vars_chunks, vars_mescla, vars_google, vars_exec, vars_conc, vars_nome, vars_reparo, vars_formas>>

NextTexto == Detecta \/ Divide

SpecTexto == InitTexto /\ [][NextTexto]_vars

\* the pages that line 322 keeps, as the combined text was built from them
PaginasComTexto == SelectSeq(trechos, ComTexto)

\* the chunks that hold page j or a slice of it
ChunksDaPagina(j) ==
  {i \in 1..Len(chunks) : \E k \in 1..Len(chunks[i].origem) : chunks[i].origem[k] = j}

\* the pages chunk i was made of
PaginasDoChunk(i) ==
  Seq1([k \in 1..Len(chunks[i].origem) |-> PaginasComTexto[chunks[i].origem[k]]])

RECURSIVE SomaLen(_)
SomaLen(ps) == IF ps = <<>> THEN 0 ELSE Len(ps[1]) + SomaLen(Tail(ps))

\* the texts of chunks a..b, one after the other
RECURSIVE TextosSeguidos(_, _)
TextosSeguidos(a, b) ==
  IF a > b THEN <<>> ELSE chunks[a].texto \o TextosSeguidos(a + 1, b)

\* chunk i holds whole pages, none of them longer than the budget
DePaginasInteiras(i, n) ==
  \A k \in 1..Len(chunks[i].origem) : Len(PaginasComTexto[chunks[i].origem[k]]) <= n

\* C16: of a text with at least one non-blank page, every chunk is at most
\* max_chars long; every page is in some chunk, pages keep their order and a
\* chunk holds consecutive pages; a page no longer than max_chars is in exactly
\* one chunk, whose text is its pages joined by newlines with the whitespace at
\* the two ends of the chunk trimmed; a longer page is cut into chunks of its
\* own, max_chars each but the last, that put together give the page; and a
\* chunk of whole pages ends before the next page only when joining that page,
\* with one newline per page, would have reached max_chars.
C16_EmpacotamentoPorPaginas ==
  tpc = "dividido" /\ PaginasComTexto # <<>> =>
    LET n == max_chars(modo_divisao)
        P == PaginasComTexto
    IN  /\ \A i \in 1..Len(chunks) : Len(chunks[i].texto) <= n
        /\ \A j \in 1..Len(P) : ChunksDaPagina(j) # {}
        /\ \A j, k \in 1..Len(P) :
             j < k => \A a \in ChunksDaPagina(j), b \in ChunksDaPagina(k) : a <= b
        /\ \A i \in 1..Len(chunks) :
             /\ chunks[i].origem # <<>>
             /\ \A k \in 1..(Len(chunks[i].origem) - 1) :
                  chunks[i].origem[k + 1] = chunks[i].origem[k] + 1
             /\ DePaginasInteiras(i, n) =>
                  chunks[i].texto = Strip(Join(PaginasDoChunk(i), <<10>>))
        /\ \A j \in 1..Len(P) :
             IF Len(P[j]) <= n
             THEN Cardinality(ChunksDaPagina(j)) = 1
             ELSE LET a == MinDe(ChunksDaPagina(j))
                      b == MaxDe(ChunksDaPagina(j))
                  IN  /\ ChunksDaPagina(j) = a..b
                      /\ \A i \in a..b : chunks[i].origem = <<j>>
                      /\ \A i \in a..(b - 1) : Len(chunks[i].texto) = n
                      /\ TextosSeguidos(a, b) = P[j]
        /\ \A i \in 1..(Len(chunks) - 1) :
             LET proxima == P[chunks[i + 1].origem[1]]
             IN  DePaginasInteiras(i, n) /\ Len(proxima) <= n =>
                   SomaLen(PaginasDoChunk(i)) + Len(chunks[i].origem) + Len(proxima) >= n

\* C16 witness: two pages were packed into the first chunk, the third page is
\* longer than the budget and was cut into slices
C16_Witness ==
  /\ tpc = "dividido"
  /\ Len(PaginasComTexto) = 3
  /\ Len(chunks) >= 3
  /\ chunks[1].origem = <<1, 2>>
  /\ chunks[2].origem = <<3>> /\ chunks[3].origem = <<3>>
  /\ Len(PaginasComTexto[3]) > max_chars(modo_divisao)

\* C17: dividir_em_chunks returns at least one chunk for every text; when no
\* page has text, and so the page loop gives no chunk, it returns one chunk,
\* the text cut to max_chars.
C17_NuncaVazio ==
  tpc = "dividido" =>
    /\ Len(chunks) >= 1
    /\ PaginasComTexto = <<>> =>
         /\ Len(chunks) = 1
         /\ chunks[1].texto = Take(texto_completo, max_chars(modo_divisao))

\* C17 witness: a text of blank pages and a marker, longer than the budget,
\* came back as one chunk
C17_Witness ==
  /\ tpc = "dividido"
  /\ PaginasComTexto = <<>>
  /\ Len(trechos) = 2
  /\ Len(texto_completo) > max_chars(modo_divisao)
  /\ Len(chunks) = 1
  /\ Len(chunks[1].texto) = max_chars(modo_divisao)

\* C18: the sistema field of the run's record is the classification of the
\* first characters of the combined text, one of the five systems, "generico"
\* exactly when detectar_sistema finds no signature there, and the same
\* whatever follows that prefix.
C18_SistemaDoRegistroEhODetectado ==
  tpc # "inicio" =>
    /\ dados_sistema = detectar_sistema(Take(texto_completo, tamanho_prefixo))
    /\ dados_sistema \in {"pje", "eproc", "saj", "projudi", "generico"}
    /\ dados_sistema = "generico" <=> sistema = "generico"
    /\ sistema = detectar_sistema(Take(texto_completo, tamanho_prefixo))

(***************************************************************************)
(* chamar_google called by several threads at once                         *)
(*                                                                         *)
(* The three globals of lines 757-759 are shared; the function takes no    *)
(* lock, so the threads interleave between statements, and line 797 is a   *)
(* read followed by a write.  Each thread makes one call, answered at once.*)
(***************************************************************************)

\* threads that call chamar_google
NChamadores == 2

\* the clock stops here
MaxTempoConc == 123

Chamadores == 1..NChamadores

\* the globals after 13 requests sent 4 s apart from the start of the window:
\* the next request is the last one the window allows
InitConcorrente ==
  /\ agora = janela + 1 + pausa_minima * (limite_requisicoes - 2)
  /\ google_last_request = janela + 1 + pausa_minima * (limite_requisicoes - 2)
  /\ google_request_count = limite_requisicoes - 1
  /\ google_minute_start = janela + 1
  /\ enviados_janela = limite_requisicoes - 1
  /\ intervalo_envios = pausa_minima
  /\ primeiro_envio = janela + 1
  /\ total_envios = limite_requisicoes - 1
  /\ chamadores = [t \in Chamadores |->
                     [pc |-> "entrada", current_time |-> 0, lido |-> 0, acorda |-> 0,
                      dorme_em |-> ""]]
  /\ gpc = "fim" /\ current_time = 0 /\ retry_count = 0
  /\ janela_cheia = -1 /\ apos_cheia = <<>>
  /\ tentativas = 0 /\ respostas = <<>> /\ fim_espera = -1 /\ reenvio = <<>>
  /\ DedupParado /\ ChunksParado /\ MesclaParada /\ ExecParado /\ TextoParado /\ NomeParado /\ ReparoParado /\ FormasParado

\* a second passes; a sleeping thread is woken on time
Tique ==
  /\ agora < MaxTempoConc
  /\ \A t \in Chamadores : chamadores[t].pc = "dorme" => chamadores[t].acorda > agora
  /\ agora' = agora + 1
  /\ UNCHANGED <<google_last_request, google_request_count, google_minute_start, gpc,
                 current_time, retry_count, enviados_janela, janela_cheia, apos_cheia,
                 intervalo_envios, primeiro_envio, total_envios,
                 tentativas, respostas, fim_espera, reenvio, chamadores,
                 vars_dedup, vars_chunks, vars_mescla, vars_exec, vars_texto, vars_nome, vars_reparo, vars_formas>>

\* lines 769-774, thread t
EntradaDe(t) ==
  /\ chamadores[t].pc = "entrada"
  /\ IF agora - google_minute_start > janela
     THEN /\ google_request_count' = 0
          /\ google_minute_start' = agora
          /\ enviados_janela' = 0
     ELSE UNCHANGED <<google_request_count, google_minute_start, enviados_janela>>
  /\ chamadores' = [chamadores EXCEPT ![t].pc = "limite", ![t].current_time = agora]
  /\ UNCHANGED <<agora, google_last_request, gpc, current_time, retry_count,
                 janela_cheia, apos_cheia, intervalo_envios, primeiro_envio, total_envios,
                 tentativas, respostas, fim_espera, reenvio,
                 vars_dedup, vars_chunks, vars_mescla, vars_exec, vars_texto, vars_nome, vars_reparo, vars_formas>>

\* lines 777-781 and 786-788, thread t: the two tests; each may put the thread
\* to sleep, the first until the window is over, the second for the spacing
TestaDe(t) ==
  /\ chamadores[t].pc \in {"limite", "pausa"}
  /\ LET eu == chamadores[t]
         espera ==
           IF eu.pc = "limite"
           THEN IF /\ AtingiuLimite(google_request_count)
                   /\ wait_time(eu.current_time, google_minute_start) > 0
                THEN wait_time(eu.current_time, google_minute_start)
                ELSE 0
           ELSE EsperaPausa(eu.current_time, google_last_request)
     IN  chamadores' =
           IF espera > 0
           THEN [chamadores EXCEPT ![t].pc = "dorme", ![t].acorda = agora + espera,
                                   ![t].dorme_em = eu.pc]
           ELSE [chamadores EXCEPT ![t].pc = IF eu.pc = "limite" THEN "pausa" ELSE "envia"]
  /\ UNCHANGED <<agora, google_last_request, google_request_count, google_minute_start, gpc,
                 current_time, retry_count, enviados_janela, janela_cheia, apos_cheia,
                 intervalo_envios, primeiro_envio, total_envios,
                 tentativas, respostas, fim_espera, reenvio,
                 vars_dedup, vars_chunks, vars_mescla, vars_exec, vars_texto, vars_nome, vars_reparo, vars_formas>>

\* the end of time.sleep, thread t: after the wait of line 781 the counter and
\* the window are restarted (lines 782-783), after that of line 788 nothing
AcordaDe(t) ==
  /\ chamadores[t].pc = "dorme"
  /\ chamadores[t].acorda <= agora
  /\ IF chamadores[t].dorme_em = "limite"
     THEN /\ google_request_count' = 0
          /\ google_minute_start' = agora
          /\ enviados_janela' = 0
          /\ chamadores' = [chamadores EXCEPT ![t].pc = "pausa", ![t].acorda = 0,
                                               ![t].dorme_em = ""]
     ELSE /\ chamadores' = [chamadores EXCEPT ![t].pc = "envia", ![t].acorda = 0,
                                               ![t].dorme_em = ""]
          /\ UNCHANGED <<google_request_count, google_minute_start, enviados_janela>>
  /\ UNCHANGED <<agora, google_last_request, gpc, current_time, retry_count,
                 janela_cheia, apos_cheia, intervalo_envios, primeiro_envio, total_envios,
                 tentativas, respostas, fim_espera, reenvio,
                 vars_dedup, vars_chunks, vars_mescla, vars_exec, vars_texto, vars_nome, vars_reparo, vars_formas>>

\* line 796 and the read of line 797, thread t
EnviaDe(t) ==
  /\ chamadores[t].pc = "envia"
  /\ google_last_request' = agora
  /\ intervalo_envios' = agora - google_last_request
  /\ chamadores' = [chamadores EXCEPT ![t].pc = "conta", ![t].current_time = 0,
                                       ![t].lido = google_request_count]
  /\ UNCHANGED <<agora, google_request_count, google_minute_start, gpc,
                 current_time, retry_count, enviados_janela, janela_cheia, apos_cheia,
                 primeiro_envio, total_envios,
                 tentativas, respostas, fim_espera, reenvio,
                 vars_dedup, vars_chunks, vars_mescla, vars_exec, vars_texto, vars_nome, vars_reparo, vars_formas>>

\* the write of line 797 and the request of line 799, thread t
ContaDe(t) ==
  /\ chamadores[t].pc = "conta"
  /\ google_request_count' = chamadores[t].lido + 1
  /\ enviados_janela' = enviados_janela + 1
  /\ total_envios' = total_envios + 1
  /\ chamadores' = [chamadores EXCEPT ![t].pc = "fim", ![t].lido = 0]
  /\ UNCHANGED <<agora, google_last_request, google_minute_start, gpc,
                 current_time, retry_count, janela_cheia, apos_cheia,
                 intervalo_envios, primeiro_envio,
                 tentativas, respostas, fim_espera, reenvio,
                 vars_dedup, vars_chunks, vars_mescla, vars_exec, vars_texto, vars_nome, vars_reparo, vars_formas>>

NextConcorrente ==
  \/ Tique
  \/ \E t \in Chamadores : EntradaDe(t)
  \/ \E t \in Chamadores : TestaDe(t)
  \/ \E t \in Chamadores : AcordaDe(t)
  \/ \E t \in Chamadores : EnviaDe(t)
  \/ \E t \in Chamadores : ContaDe(t)

SpecConcorrente == InitConcorrente /\ [][NextConcorrente]_vars

\* the threads that have read the limiter's state for a call and not yet
\* counted their request
NoPortao == {t \in Chamadores : chamadores[t].pc \in {"limite", "pausa", "dorme", "envia", "conta"}}

\* C20: with several threads in chamar_google, the tests of the counter and of
\* the spacing and the increment are one atomic step of one thread at a time,
\* so that no window holds more than the threshold of requests, the counter
\* holds what was sent, and two consecutive requests are at least 4 s apart.
C20_LimitadorSobExclusaoMutua ==
  /\ Cardinality(NoPortao) <= 1
  /\ enviados_janela <= limite_requisicoes
  /\ google_request_count = enviados_janela
  /\ intervalo_envios >= pausa_minima

\* C21: in a local-mode run, from the window or from the command line, an
\* Ollama that does not answer is found before the first chunk: no chunk
\* reaches chamar_llm, no request is sent and the run ends; and the local
\* backend is sent at most one request per chunk (no retry).
C21_PreVooLocal ==
  /\ modo = "local" /\ ~ollama_ok /\ epc # "ocioso" =>
       /\ chamadas_llm = 0 /\ pedidos_http = 0
       /\ epc # "chunks"
  /\ modo = "local" => pedidos_http <= chamadas_llm

\* C22: after a backend answered HTTP 401 or 403 to one chunk, no further
\* request is sent in the run; and every request of a run goes to the backend
\* selected at its start.
C22_RejeicaoEncerraBackend ==
  /\ ~apos_rejeicao
  /\ destinos \subseteq {modo}

(***************************************************************************)
(* normalizar_nome applied to its own result                               *)
(***************************************************************************)

\* pieces a name is made of
MaxPecas == 4

\* the pieces: letters, blanks, an accent, and corporate suffixes whole or cut
Pecas ==
  {
    <<97>>,  \* 'a'
    <<32>>,  \* ' '
    <<32,83>>,  \* ' S'
    <<47,65>>,  \* '/A'
    <<32,69,80,80>>,  \* ' EPP'
    <<32,77,69>>,  \* ' ME'
    <<69>>,  \* 'E'
    <<32,76,116,100,97,46>>,  \* ' Ltda.'
    <<233>>  \* 'é'
  }

RECURSIVE Concatena(_)
Concatena(ps) == IF ps = <<>> THEN <<>> ELSE Head(ps) \o Concatena(Tail(ps))

\* the names: up to MaxPecas pieces in a row
Nomes == { Concatena(ps) : ps \in UNION { [1..n -> Pecas] : n \in 0..MaxPecas } }

\* a name as an extraction carries it (line 631: p.get('nome'))
InitNome ==
  /\ nome \in Nomes
  /\ npc = "entrada" /\ normalizado = <<>> /\ renormalizado = <<>>
  /\ DedupParado /\ ChunksParado /\ MesclaParada /\ GoogleParado /\ ExecParado /\ TextoParado /\ ConcParado /\ ReparoParado /\ FormasParado

\* lines 445-467: the key of the name
Normaliza ==
  /\ npc = "entrada"
  /\ normalizado' = normalizar_nome(nome)
  /\ npc' = "uma"
  /\ UNCHANGED <<nome, renormalizado, vars_dedup, vars_chunks, vars_mescla, vars_google,
                 vars_exec, vars_texto, vars_conc, vars_reparo, vars_formas>>

\* lines 445-467 again, on the key
Renormaliza ==
  /\ npc = "uma"
  /\ renormalizado' = normalizar_nome(normalizado)
  /\ npc' = "duas"
  /\ UNCHANGED <<nome, normalizado, vars_dedup, vars_chunks, vars_mescla, vars_google,
                 vars_exec, vars_texto, vars_conc, vars_reparo, vars_formas>>

NextNome == Normaliza \/ Renormaliza

SpecNome == InitNome /\ [][NextNome]_vars

\* C23: normalizar_nome is idempotent: for every name, the names in which the
\* removal of one corporate suffix leaves another suffix included, normalising
\* the normalised name gives it back unchanged.
C23_NormalizarIdempotente == npc = "duas" => renormalizado = normalizado

\* placeholder names in several spellings beside a real party
ExtracaoE ==
  [
    \* ''
    objeto_acao |-> <<>>,
    \* ''
    resumo_fatos |-> <<>>,
    partes |-> <<
        \* 'null', 'Réu'
        [nome |-> <<110,117,108,108>>, polo |-> <<82,233,117>>],
        \* 'Maria Souza', 'Autor'
        [nome |-> <<77,97,114,105,97,32,83,111,117,122,97>>, polo |-> <<65,117,116,111,114>>],
        \* ' None ', ''
        [nome |-> <<32,78,111,110,101,32>>, polo |-> <<>>],
        \* 'NULL', 'Autor'
        [nome |-> <<78,85,76,76>>, polo |-> <<65,117,116,111,114>>]
      >>,
    valores_relevantes |-> <<>>,
    pedidos |-> <<>>,
    decisoes |-> <<>>,
    teses_autor |-> <<>>,
    teses_reu |-> <<>>,
    documentos_importantes |-> <<>>,
    historico_detalhado |-> <<
        \* '', 'Sentença', ''
        [data |-> <<>>, descricao |-> <<83,101,110,116,101,110,231,97>>, evento |-> <<>>, tem_descricao |-> TRUE]
      >>,
    \* ''
    status_atual |-> <<>>
  ]

\* dates that int() accepts though they are no calendar dates
ExtracaoF ==
  [
    \* ''
    objeto_acao |-> <<>>,
    \* ''
    resumo_fatos |-> <<>>,
    partes |-> <<>>,
    valores_relevantes |-> <<>>,
    pedidos |-> <<>>,
    decisoes |-> <<>>,
    teses_autor |-> <<>>,
    teses_reu |-> <<>>,
    documentos_importantes |-> <<>>,
    historico_detalhado |-> <<
        \* '01/01/-1', 'Despacho saneador', ''
        [data |-> <<48,49,47,48,49,47,45,49>>, descricao |-> <<68,101,115,112,97,99,104,111,32,115,97,110,101,97,100,111,114>>, evento |-> <<>>, tem_descricao |-> TRUE],
        \* '0/0/0', 'Protocolo', ''
        [data |-> <<48,47,48,47,48>>, descricao |-> <<80,114,111,116,111,99,111,108,111>>, evento |-> <<>>, tem_descricao |-> TRUE],
        \* '01/01/-1', 'Emissão de boleto', ''
        [data |-> <<48,49,47,48,49,47,45,49>>, descricao |-> <<69,109,105,115,115,227,111,32,100,101,32,98,111,108,101,116,111>>, evento |-> <<>>, tem_descricao |-> TRUE]
      >>,
    \* ''
    status_atual |-> <<>>
  ]

\* the catalogue with the two records above
CatalogoAmplo == CatalogoSet \cup {ExtracaoE, ExtracaoF}

(***************************************************************************)
(* mesclar_extracoes on the wider catalogue                                *)
(***************************************************************************)

InitMesclaAmpla ==
  /\ etapa = "entrada"
  /\ entrada \in UNION { [1..m -> CatalogoAmplo] : m \in 0..MaxExtracoes }
  /\ saida = DictVazio
  /\ anterior = DictVazio
  /\ DedupParado /\ ChunksParado /\ GoogleParado /\ ExecParado /\ TextoParado /\ ConcParado /\ NomeParado /\ ReparoParado /\ FormasParado

SpecMesclaAmpla == InitMesclaAmpla /\ [][NextMescla]_vars

\* the sort key of an event (line 715)
ChaveData(h) == parse_data_brasileira(h.data)

\* no event stands before an event with a smaller key
Ordenada(hs) ==
  \A i, j \in 1..Len(hs) : i < j => ~DataMenor(ChaveData(hs[j]), ChaveData(hs[i]))

Posicao(hs, h) == CHOOSE p \in 1..Len(hs) : hs[p] = h

\* depois holds the events of antes, and events with one key keep their order
RearranjoEstavel(antes, depois) ==
  /\ Len(depois) = Len(antes)
  /\ \A p \in 1..Len(antes) : \E q \in 1..Len(depois) : depois[q] = antes[p]
  /\ \A i, j \in 1..Len(depois) :
        i < j /\ ChaveData(depois[i]) = ChaveData(depois[j]) =>
          Posicao(antes, depois[i]) < Posicao(antes, depois[j])

\* the events with key (0,0,0) stand before every event with another key
SemDataPrimeiro(hs) ==
  \A i, j \in 1..Len(hs) :
     ChaveData(hs[i]) = <<0, 0, 0>> /\ ChaveData(hs[j]) # <<0, 0, 0>> => i < j

\* the events with key (0,0,0) stand before every event with a greater key
SemDataAntesDasMaiores(hs) ==
  \A i, j \in 1..Len(hs) :
     ChaveData(hs[i]) = <<0, 0, 0>> /\ DataMenor(<<0, 0, 0>>, ChaveData(hs[j])) => i < j

\* the three histories are the stable sort of what the loop collected
HistoricosOrdenados ==
  LET bruto == MesclaTodas(ResultadoInicial, entrada)
  IN  /\ Ordenada(saida.historico_processual)
      /\ RearranjoEstavel(bruto.historico_processual, saida.historico_processual)
      /\ Ordenada(saida.historico_fatico)
      /\ RearranjoEstavel(bruto.historico_fatico, saida.historico_fatico)
      /\ Ordenada(saida.historico_detalhado)
      /\ RearranjoEstavel(saida.historico_processual \o saida.historico_fatico,
                          saida.historico_detalhado)

\* C24 as stated: in the merged record each of historico_processual,
\* historico_fatico and historico_detalhado is sorted non-decreasingly by the
\* key of parse_data_brasileira, the sort is stable, historico_detalhado holds
\* exactly the events of the two categories, and the events whose date is
\* empty or unparseable (key (0,0,0)) come first.
C24_SemDataVemPrimeiro ==
  etapa # "entrada" =>
    /\ HistoricosOrdenados
    /\ SemDataPrimeiro(saida.historico_processual)
    /\ SemDataPrimeiro(saida.historico_fatico)
    /\ SemDataPrimeiro(saida.historico_detalhado)

\* C24 amended: sorted, stable and complete as stated; the events with key
\* (0,0,0) come before every event with a greater key, and an event whose date
\* carries a negative number has a smaller key and comes before them.
C24_OrdemCronologica ==
  etapa # "entrada" =>
    /\ HistoricosOrdenados
    /\ SemDataAntesDasMaiores(saida.historico_processual)
    /\ SemDataAntesDasMaiores(saida.historico_fatico)
    /\ SemDataAntesDasMaiores(saida.historico_detalhado)

\* C24 witness: a merge whose sort moved events, with two undated events of
\* one category in their input order, a dated event after them and an event
\* with a negative year before them
C24_Witness ==
  /\ etapa = "mesclado"
  /\ saida.historico_processual # MesclaTodas(ResultadoInicial, entrada).historico_processual
  /\ \E i, j, k, l \in 1..Len(saida.historico_processual) :
        /\ i < j /\ j < k /\ k < l
        /\ DataMenor(ChaveData(saida.historico_processual[i]), <<0, 0, 0>>)
        /\ ChaveData(saida.historico_processual[j]) = <<0, 0, 0>>
        /\ ChaveData(saida.historico_processual[k]) = <<0, 0, 0>>
        /\ saida.historico_processual[j].data # saida.historico_processual[k].data
        /\ DataMenor(<<0, 0, 0>>, ChaveData(saida.historico_processual[l]))
  /\ Len(saida.historico_fatico) >= 1
  /\ Len(saida.historico_detalhado) =
       Len(saida.historico_processual) + Len(saida.historico_fatico)

\* every event of the input list, in input order
RECURSIVE TodosEventos(_)
TodosEventos(lista) ==
  IF lista = <<>> THEN <<>>
  ELSE Head(lista).historico_detalhado \o TodosEventos(Tail(lista))

\* the list of the merged record an event of that description belongs to
ListaDaCategoria(r, h) ==
  IF categorizar_evento(DescEvento(h)) = "fatico"
  THEN r.historico_fatico ELSE r.historico_processual

\* C25: a non-noise event is missing from the list of its category only when
\* an earlier non-noise event of the same category has the same date and the
\* same first 30 characters of description (letter case apart); an event of the
\* other category with that key never makes it drop.
C25_DuplicataSoNaCategoria ==
  etapa # "entrada" =>
    LET todos == TodosEventos(entrada)
    IN  \A a \in 1..Len(todos) :
          (/\ is_evento_relevante(DescEvento(todos[a]))
           /\ \A q \in 1..Len(ListaDaCategoria(saida, todos[a])) :
                 ListaDaCategoria(saida, todos[a])[q] # todos[a])
          => \E c \in 1..(a - 1) :
                /\ is_evento_relevante(DescEvento(todos[c]))
                /\ categorizar_evento(DescEvento(todos[c])) =
                     categorizar_evento(DescEvento(todos[a]))
                /\ ChaveEvento(todos[c]) = ChaveEvento(todos[a])

\* C26: no party whose name is empty or is the placeholder "none" or "null",
\* in any letter case, is in the partes list of the merged record, and every
\* other party of the input has its key in the list exactly once.
C26_SemPartesDeMarcador ==
  etapa # "entrada" =>
    /\ \A b \in 1..Len(saida.partes) :
          /\ Strip(saida.partes[b].nome) # <<>>
          /\ Upper(Strip(saida.partes[b].nome)) \notin {<<78, 79, 78, 69>>, <<78, 85, 76, 76>>}
    /\ \A a \in 1..Len(TodasPartes(entrada)) :
          LET p == TodasPartes(entrada)[a]
          IN  (/\ Strip(p.nome) # <<>>
               /\ Upper(Strip(p.nome)) \notin {<<78, 79, 78, 69>>, <<78, 85, 76, 76>>})
              => Cardinality({b \in 1..Len(saida.partes) :
                                ChaveParte(saida.partes[b]) = ChaveParte(p)}) = 1

(***************************************************************************)
(* processar_processo, lines 1093-1141: from the reply of a chunk to the   *)
(* object appended to extracoes                                            *)
(*                                                                         *)
(* json.loads is a validating parser over the characters of the text; its  *)
(* result is kept as the text of the value without insignificant           *)
(* whitespace.  Numbers are integers, and \u escapes are not among the      *)
(* replies drawn.                                                          *)
(***************************************************************************)

\* ``` and ```json
Cerca == <<96, 96, 96>>

CercaJson == <<96, 96, 96, 106, 115, 111, 110>>

\* the number of whitespace characters s has from position p on
Brancos(s, p) ==
  Cardinality({q \in p..Len(s) : \A r \in p..q : IsSpace(s[r])})

\* re.sub(lit + r'\s*', '', s): every occurrence of lit, with the whitespace
\* after it, is removed
RECURSIVE RemoveComBrancos(_, _)
RemoveComBrancos(s, l) ==
  IF ~Contains(s, l) THEN s
  ELSE LET p == MinDe({q \in 1..(Len(s) - Len(l) + 1) : SubSeq(s, q, q + Len(l) - 1) = l})
           depois == p + Len(l) + Brancos(s, p + Len(l))
       IN  SubSeq(s, 1, p - 1) \o RemoveComBrancos(SubSeq(s, depois, Len(s)), l)

\* re.sub(r'```\s*$', '', s): the first fence that only whitespace follows is
\* removed with it
RemoveCercaFinal(s) ==
  LET ms == {p \in 1..(Len(s) - 2) :
               SubSeq(s, p, p + 2) = Cerca /\ p + 2 + Brancos(s, p + 3) = Len(s)}
  IN  IF ms = {} THEN s ELSE SubSeq(s, 1, MinDe(ms) - 1)

\* lines 1097-1101
SemCercas(r) ==
  IF Contains(r, CercaJson) THEN RemoveCercaFinal(RemoveComBrancos(r, CercaJson))
  ELSE IF Contains(r, Cerca) THEN RemoveComBrancos(r, Cerca)
  ELSE r

\* the positions of c in s
Posicoes(s, c) == {p \in 1..Len(s) : s[p] = c}

\* re.search(r'\{[\s\S]*\}', s): from the first { to the last } after it; <<>>
\* when there is none
BuscaJson(s) ==
  LET abre == Posicoes(s, 123)
      fecha == Posicoes(s, 125)
  IN  IF abre = {} \/ fecha = {} \/ MaxDe(fecha) < MinDe(abre) THEN <<>>
      ELSE SubSeq(s, MinDe(abre), MaxDe(fecha))

\* lines 1119-1123: s[s.find('{') : s.rfind('}') + 1] when both are found in
\* that order, else s
EntreChaves(s) ==
  LET abre == Posicoes(s, 123)
      fecha == Posicoes(s, 125)
  IN  IF abre # {} /\ fecha # {} /\ MaxDe(fecha) > MinDe(abre)
      THEN SubSeq(s, MinDe(abre), MaxDe(fecha))
      ELSE s

\* re.sub of a + r'\s*' + b by novo, for two characters a and b that are not
\* whitespace
RECURSIVE SubPar(_, _, _, _)
SubPar(s, a, b, novo) ==
  LET ms == {p \in 1..Len(s) :
               /\ s[p] = a
               /\ p + 1 + Brancos(s, p + 1) <= Len(s)
               /\ s[p + 1 + Brancos(s, p + 1)] = b}
  IN  IF ms = {} THEN s
      ELSE LET p == MinDe(ms)
               q == p + 1 + Brancos(s, p + 1)
           IN  SubSeq(s, 1, p - 1) \o novo \o SubPar(SubSeq(s, q + 1, Len(s)), a, b, novo)

\* re.sub(r'(?<!\\)\n', ' ', s)
SemQuebras(s) ==
  Seq1([p \in 1..Len(s) |->
          IF s[p] = 10 /\ (p = 1 \/ s[p - 1] # 92) THEN 32 ELSE s[p]])

\* lines 1127-1134, the corrections in the code's order
Corrige(s) ==
  LET sem_virgula_chave == SubPar(s, 44, 125, <<125>>)
      sem_virgula_lista == SubPar(sem_virgula_chave, 44, 93, <<93>>)
      virgula_apos_chave == SubPar(sem_virgula_lista, 125, 34, <<125, 44, 32, 34>>)
      virgula_apos_lista == SubPar(virgula_apos_chave, 93, 34, <<93, 44, 32, 34>>)
  IN  SemQuebras(virgula_apos_lista)

\* json.loads: the whitespace between tokens
BrancoJson(c) == c \in {32, 9, 10, 13}

\* the first position from p on that holds no such whitespace (Len(s) + 1 when
\* there is none)
Pula(s, p) ==
  p + Cardinality({q \in p..Len(s) : \A r \in p..q : BrancoJson(s[r])})

\* the closing quote of the string whose text starts at r; 0 when the string is
\* not closed, holds a control character or a backslash with no escape
RECURSIVE TextoFim(_, _)
TextoFim(s, r) ==
  IF r > Len(s) THEN 0
  ELSE IF s[r] = 34 THEN r
  ELSE IF s[r] = 92
       THEN IF r + 1 <= Len(s) /\ s[r + 1] \in {34, 92, 47, 98, 102, 110, 114, 116}
            THEN TextoFim(s, r + 2) ELSE 0
  ELSE IF s[r] < 32 THEN 0
  ELSE TextoFim(s, r + 1)

\* the last digit of the integer that starts at q (after its sign); 0 when no
\* digit is there
NumeroFim(s, q) ==
  IF q > Len(s) \/ ~IsDigit(s[q]) THEN 0
  ELSE IF s[q] = 48 THEN q
  ELSE q - 1 + Cardinality({d \in q..Len(s) : \A r \in q..d : IsDigit(s[r])})

Falha == [ok |-> FALSE, pos |-> 0, out |-> <<>>]

Literais ==
  {<<116, 114, 117, 101>>, <<102, 97, 108, 115, 101>>, <<110, 117, 108, 108>>}  \* true, false, null

RECURSIVE Valor(_, _)
RECURSIVE Membros(_, _, _)
RECURSIVE Itens(_, _, _)

\* the members of an object from the key expected at p on; acc is the text so far
Membros(s, p, acc) ==
  LET q == Pula(s, p)
  IN  IF q > Len(s) \/ s[q] # 34 \/ TextoFim(s, q + 1) = 0 THEN Falha
      ELSE LET f == TextoFim(s, q + 1)
               c == Pula(s, f + 1)
           IN  IF c > Len(s) \/ s[c] # 58 THEN Falha
               ELSE LET v == Valor(s, c + 1)
                    IN  IF ~v.ok \/ Pula(s, v.pos) > Len(s) THEN Falha
                        ELSE LET d == Pula(s, v.pos)
                                 novo == acc \o SubSeq(s, q, f) \o <<58>> \o v.out
                             IN  IF s[d] = 125
                                 THEN [ok |-> TRUE, pos |-> d + 1, out |-> novo \o <<125>>]
                                 ELSE IF s[d] = 44 THEN Membros(s, d + 1, novo \o <<44>>)
                                 ELSE Falha

\* the items of a list from the value expected at p on
Itens(s, p, acc) ==
  LET v == Valor(s, p)
  IN  IF ~v.ok \/ Pula(s, v.pos) > Len(s) THEN Falha
      ELSE LET d == Pula(s, v.pos)
               novo == acc \o v.out
           IN  IF s[d] = 93 THEN [ok |-> TRUE, pos |-> d + 1, out |-> novo \o <<93>>]
               ELSE IF s[d] = 44 THEN Itens(s, d + 1, novo \o <<44>>)
               ELSE Falha

\* one JSON value from p on: where it ends and its text
Valor(s, p) ==
  LET q == Pula(s, p)
  IN  IF q > Len(s) THEN Falha
      ELSE IF s[q] = 123
           THEN IF Pula(s, q + 1) <= Len(s) /\ s[Pula(s, q + 1)] = 125
                THEN [ok |-> TRUE, pos |-> Pula(s, q + 1) + 1, out |-> <<123, 125>>]
                ELSE Membros(s, q + 1, <<123>>)
      ELSE IF s[q] = 91
           THEN IF Pula(s, q + 1) <= Len(s) /\ s[Pula(s, q + 1)] = 93
                THEN [ok |-> TRUE, pos |-> Pula(s, q + 1) + 1, out |-> <<91, 93>>]
                ELSE Itens(s, q + 1, <<91>>)
      ELSE IF s[q] = 34
           THEN IF TextoFim(s, q + 1) = 0 THEN Falha
                ELSE [ok |-> TRUE, pos |-> TextoFim(s, q + 1) + 1,
                      out |-> SubSeq(s, q, TextoFim(s, q + 1))]
      ELSE IF s[q] = 45 \/ IsDigit(s[q])
           THEN LET f == NumeroFim(s, IF s[q] = 45 THEN q + 1 ELSE q)
                IN  IF f = 0 THEN Falha
                    ELSE [ok |-> TRUE, pos |-> f + 1, out |-> SubSeq(s, q, f)]
      ELSE IF \E l \in Literais : SubSeq(s, q, Min(q + Len(l) - 1, Len(s))) = l
           THEN LET l == CHOOSE l \in Literais : SubSeq(s, q, Min(q + Len(l) - 1, Len(s))) = l
                IN  [ok |-> TRUE, pos |-> q + Len(l), out |-> l]
      ELSE Falha

\* json.loads(s): the value, or the JSONDecodeError
json_loads(s) ==
  LET v == Valor(s, 1)
  IN  IF v.ok /\ Pula(s, v.pos) > Len(s) THEN [ok |-> TRUE, out |-> v.out]
      ELSE [ok |-> FALSE, out |-> <<>>]

\* the objects a reply is written from, as the backend would write them
ObjetosJson ==
  {
    <<123,34,97,34,58,49,125>>,  \* '{"a":1}'
    <<123,34,97,34,58,34,120,34,44,34,98,34,58,91,49,44,50,93,125>>,  \* '{"a":"x","b":[1,2]}'
    <<123,34,97,34,58,123,34,98,34,58,49,125,44,34,99,34,58,34,121,34,125>>,  \* '{"a":{"b":1},"c":"y"}'
    <<123,10,32,34,97,34,58,32,91,49,44,32,50,93,10,125>>,  \* '{\n "a": [1, 2]\n}'
    <<123,34,97,34,58,34,91,120,93,34,125>>,  \* '{"a":"[x]"}'
    <<123,34,97,34,58,116,114,117,101,44,34,98,34,58,110,117,108,108,125>>  \* '{"a":true,"b":null}'
  }

\* what went wrong in the writing: nothing, a comma before the last brace, the
\* last brace missing
Defeitos == {"nenhum", "virgula", "sem_fecho"}

\* what surrounds the object: nothing, a ```json fence, a bare fence, prose
Cercas == {"nenhuma", "json", "simples", "prosa"}

ComDefeito(t, d) ==
  IF d = "virgula" THEN SubSeq(t, 1, Len(t) - 1) \o <<44, 125>>
  ELSE IF d = "sem_fecho" THEN SubSeq(t, 1, Len(t) - 1)
  ELSE t

Cercado(t, c) ==
  IF c = "json" THEN CercaJson \o <<10>> \o t \o <<10>> \o Cerca
  ELSE IF c = "simples" THEN Cerca \o <<10>> \o t \o <<10>> \o Cerca
  ELSE IF c = "prosa" THEN <<83, 101, 103, 117, 101, 58, 32>> \o t \o <<32, 102, 105, 109, 46>>
  ELSE t

\* line 1091: the reply of the backend to one chunk
InitReparo ==
  /\ caso \in [texto : ObjetosJson, defeito : Defeitos, cerca : Cercas]
  /\ resposta = Cercado(ComDefeito(caso.texto, caso.defeito), caso.cerca)
  /\ rpc = "resposta"
  /\ extraidas = <<>> /\ n_estrito = 0 /\ n_reparo = 0 /\ trecho_reparado = <<>>
  /\ DedupParado /\ ChunksParado /\ MesclaParada /\ GoogleParado /\ ExecParado /\ TextoParado /\ ConcParado /\ NomeParado /\ FormasParado

\* lines 1093-1115: the fences are removed, the JSON is searched and parsed
Estrito ==
  /\ rpc = "resposta"
  /\ LET json_str == BuscaJson(SemCercas(resposta))
     IN  IF resposta = <<>> \/ json_str = <<>>
         THEN /\ rpc' = "fim"
              /\ UNCHANGED <<extraidas, n_estrito>>
         ELSE /\ n_estrito' = n_estrito + 1
              /\ IF json_loads(json_str).ok
                 THEN /\ extraidas' = Append(extraidas, json_loads(json_str).out)
                      /\ rpc' = "fim"
                 ELSE /\ rpc' = "reparo"
                      /\ UNCHANGED extraidas
  /\ UNCHANGED <<caso, resposta, n_reparo, trecho_reparado, vars_dedup, vars_chunks,
                 vars_mescla, vars_google, vars_exec, vars_texto, vars_conc, vars_nome, vars_formas>>

\* lines 1116-1141: the JSONDecodeError handler corrects the reply and parses it
\* once more; what that raises is logged and the chunk adds nothing
Repara ==
  /\ rpc = "reparo"
  /\ n_reparo' = n_reparo + 1
  /\ trecho_reparado' = EntreChaves(resposta)
  /\ LET json_str == Corrige(EntreChaves(resposta))
     IN  IF json_loads(json_str).ok
         THEN extraidas' = Append(extraidas, json_loads(json_str).out)
         ELSE UNCHANGED extraidas
  /\ rpc' = "fim"
  /\ UNCHANGED <<caso, resposta, n_estrito, vars_dedup, vars_chunks,
                 vars_mescla, vars_google, vars_exec, vars_texto, vars_conc, vars_nome, vars_formas>>

NextReparo == Estrito \/ Repara

SpecReparo == InitReparo /\ [][NextReparo]_vars

\* C27: the reply of a chunk that is a fenced JSON object with a comma before
\* its last brace adds to extracoes the object without that comma; a chunk has
\* one strict parse and at most one correct-and-retry pass; and the pass starts
\* from the reply between its first { and its last }.
C27_RespostaRecuperada ==
  /\ n_estrito <= 1 /\ n_reparo <= 1
  /\ n_reparo = 1 => trecho_reparado = ComDefeito(caso.texto, caso.defeito)
  /\ rpc = "fim" /\ caso.defeito = "virgula" /\ caso.cerca \in {"json", "simples"} =>
       extraidas = <<json_loads(caso.texto).out>>

(***************************************************************************)
(* mesclar_extracoes and deduplicar_valores on replies of any shape        *)
(*                                                                         *)
(* json.loads gives a dict whose values may be absent, null, a string, a   *)
(* number or a list, whatever the prompt asked for.  A reply is described  *)
(* by the one key that is out of shape; its other keys are well formed.    *)
(***************************************************************************)

\* replies of one run
MaxFormas == 2

\* the keys mesclar_extracoes iterates over
ChavesDeLista ==
  {"partes", "valores_relevantes", "pedidos", "decisoes", "teses_autor", "teses_reu",
   "documentos_importantes", "historico_detalhado"}

\* the keys it reads as text
ChavesDeTexto == {"objeto_acao", "resumo_fatos", "status_atual"}

\* the keys it reads in the dicts of those lists
ChavesDeItem ==
  {"partes.nome", "valores_relevantes.descricao", "valores_relevantes.valor",
   "documentos_importantes.tipo", "historico_detalhado.data",
   "historico_detalhado.descricao", "historico_detalhado.evento"}

\* the key is missing, null, a string, a number other than 0, a list with an item
Formas == {"ausente", "nulo", "texto", "numero", "lista"}

\* lines 631, 556, 557, 676: x.get(k, "").strip() or .lower(); only a str has them
MetodoDeTexto(f) == IF f \in {"ausente", "texto"} THEN "" ELSE "AttributeError"

\* lines 629, 641, 645, 653, 658, 666, 674, 682: for x in ext.get(k, []); a str
\* gives its characters, which the isinstance tests sort out
Itera(f) == IF f \in {"nulo", "numero"} THEN "TypeError" ELSE ""

\* lines 621-622: resumo and resumo not in resultado["resumo_fatos"]
ContidoNoResumo(f) == IF f \in {"numero", "lista"} THEN "TypeError" ELSE ""

\* lines 489-492 from line 688: `not descricao` sends null away, descricao.lower()
\* needs a str
Relevancia(f) == IF f \in {"numero", "lista"} THEN "AttributeError" ELSE ""

\* lines 613-705: what the body of the loop raises on one reply
ExcecaoNoLaco(c) ==
  IF c.campo = "resumo_fatos" THEN ContidoNoResumo(c.forma)
  ELSE IF c.campo \in ChavesDeLista THEN Itera(c.forma)
  ELSE IF c.campo \in {"partes.nome", "documentos_importantes.tipo"} THEN MetodoDeTexto(c.forma)
  ELSE IF c.campo \in {"historico_detalhado.descricao", "historico_detalhado.evento"}
       THEN Relevancia(c.forma)
  ELSE ""

\* lines 552-571: what deduplicar_valores raises on the values of one reply;
\* float() of a text that is no number is caught at line 565
ExcecaoNosValores(c) ==
  IF c.campo \in {"valores_relevantes.descricao", "valores_relevantes.valor"}
  THEN MetodoDeTexto(c.forma)
  ELSE ""

RECURSIVE Primeira(_, _)
Primeira(Op(_), cs) ==
  IF cs = <<>> THEN ""
  ELSE IF Op(Head(cs)) # "" THEN Op(Head(cs))
  ELSE Primeira(Op, Tail(cs))

\* lines 580-729: the loop over the replies, then deduplicar_valores on the
\* values collected, then the sorts, whose key never raises (lines 472-484)
mesclar_formas(cs) ==
  IF Primeira(ExcecaoNoLaco, cs) # "" THEN Primeira(ExcecaoNoLaco, cs)
  ELSE Primeira(ExcecaoNosValores, cs)

CasosDeForma == [campo : ChavesDeLista \cup ChavesDeTexto \cup ChavesDeItem, forma : Formas]

\* line 1085: the replies of the chunks that parsed
InitFormas ==
  /\ formas \in UNION { [1..n -> CasosDeForma] : n \in 1..MaxFormas }
  /\ fpc = "extraidas" /\ excecao = ""
  /\ DedupParado /\ ChunksParado /\ MesclaParada /\ GoogleParado /\ ExecParado /\ TextoParado /\ ConcParado /\ NomeParado /\ ReparoParado

\* mesclar_extracoes called on the list
MesclaFormas ==
  /\ fpc = "extraidas"
  /\ excecao' = mesclar_formas(formas)
  /\ fpc' = "mesclado"
  /\ UNCHANGED <<formas, vars_dedup, vars_chunks, vars_mescla, vars_google, vars_exec,
                 vars_texto, vars_conc, vars_nome, vars_reparo>>

\* lines 1143-1151: the consolidation of a run merges two replies or more and
\* takes a single one as it is; nothing there catches an exception
ConsolidaFormas ==
  /\ fpc = "extraidas"
  /\ excecao' = IF Len(formas) > 1 THEN mesclar_formas(formas) ELSE ""
  /\ fpc' = "consolidado"
  /\ UNCHANGED <<formas, vars_dedup, vars_chunks, vars_mescla, vars_google, vars_exec,
                 vars_texto, vars_conc, vars_nome, vars_reparo>>

NextFormas == MesclaFormas \/ ConsolidaFormas

SpecFormas == InitFormas /\ [][NextFormas]_vars

\* C28: mesclar_extracoes and deduplicar_valores raise nothing on a list of
\* parsed replies in which keys are absent, null or a text (a value text that
\* is no number included), and so the consolidation of a run over such replies
\* never ends in an exception.
C28_MesclaNuncaLevanta ==
  (\A j \in 1..Len(formas) : formas[j].forma \in {"ausente", "nulo", "texto"}) => excecao = ""

(***************************************************************************)
(* chamar_google: the end of one call                                      *)
(***************************************************************************)

\* lines 769-849: the steps of a call that has begun; the sleeps are finite and
\* requests.post(..., timeout=180) ends in a response or in an exception
PassoDaChamada ==
  \/ Entrada
  \/ Limite
  \/ Pausa
  \/ Envia
  \/ \E d \in Latencias : RespostaFinal(d)
  \/ \E d \in Latencias : Resposta429(d)
  \/ RespostaTimeout

\* the interpreter runs a call that has begun to its return
SpecGoogleJusto == SpecGoogle /\ WF_vars(PassoDaChamada)

\* C29: a call of chamar_google that has begun returns, and it has sent at most
\* 4 requests whatever mix of 429, timeout and other responses it got: the
\* requests sent are at most one more than retry_count, which both retry paths
\* raise, nothing lowers during the call, and no path raises past 3.
C29_ChamadaTerminaEmQuatroPedidos ==
  /\ [](/\ tentativas <= retry_count + 1
        /\ retry_count <= max_retry_429
        /\ tentativas <= max_retry_429 + 1)
  /\ [][gpc # "ocioso" => retry_count' >= retry_count]_vars
  /\ (gpc # "ocioso" ~> gpc = "ocioso")

\* C29 witness: two timeouts and two 429, four requests sent, and the call has
\* returned
C29_Witness ==
  /\ gpc = "ocioso"
  /\ respostas = <<"timeout", "timeout", "429", "429">>
  /\ tentativas = max_retry_429 + 1
  /\ retry_count = max_retry_429

(***************************************************************************)
(* processar_processo, lines 1087-1091: the prompt of each chunk           *)
(***************************************************************************)

\* chunk[:15000] of line 1090, scaled down with the chunk sizes
limite_prompt == 3

\* line 352 of PROMPT_EXTRACAO: the line before the placeholder (the
\* instructions above it are left out)
antes_do_texto == <<84, 69, 88, 84, 79, 32, 68, 79, 32, 80, 82, 79, 67, 69, 83, 83, 79, 58, 10>>  \* 'TEXTO DO PROCESSO:\n'

\* lines 353-355 of PROMPT_EXTRACAO: what follows the placeholder (the field
\* list under it is left out)
depois_do_texto == <<10, 10, 69, 120, 116, 114, 97, 105, 97>>  \* '\n\nExtraia'

\* mutant of Recorte: the whole chunk goes into the prompt
RecorteNenhum(chunk) == chunk

\* line 1090: chunk[:15000]
Recorte(chunk) == Take(chunk, limite_prompt)

\* line 1090: PROMPT_EXTRACAO.format(texto=...)
Formata(texto) == antes_do_texto \o texto \o depois_do_texto

\* lines 1087-1091: the next chunk's prompt is built and handed to chamar_llm,
\* the only call of chamar_llm in the program
MontaPrompt ==
  /\ tpc = "dividido"
  /\ Len(prompts) < Len(chunks)
  /\ prompts' = Append(prompts, Formata(Recorte(chunks[Len(prompts) + 1].texto)))
  /\ UNCHANGED <<tpc, trechos, texto_completo, modo_divisao, sistema, dados_sistema, chunks,
                 vars_dedup, vars_chunks, vars_mescla, vars_google, vars_exec, vars_conc, vars_nome, vars_reparo, vars_formas>>

NextPrompt == Detecta \/ Divide \/ MontaPrompt

SpecPrompt == InitTexto /\ [][NextPrompt]_vars

\* what a prompt holds between the two parts of the template
TextoDoPrompt(p) == SubSeq(p, Len(antes_do_texto) + 1, Len(p) - Len(depois_do_texto))

\* C30: the k-th prompt handed to a backend is the template around the first
\* 15,000 characters of the k-th chunk, or around the whole chunk when it is
\* shorter, for the local and for the cloud budget; no character of a chunk past
\* that length is in any prompt, and no prompt is built for anything but the
\* chunks, one each, in order.
C30_PromptSoComOInicioDoChunk ==
  /\ Len(prompts) <= Len(chunks)
  /\ \A k \in 1..Len(prompts) :
       /\ Len(prompts[k]) =
            Len(antes_do_texto) + Min(Len(chunks[k].texto), limite_prompt) + Len(depois_do_texto)
       /\ SubSeq(prompts[k], 1, Len(antes_do_texto)) = antes_do_texto
       /\ SubSeq(prompts[k], Len(prompts[k]) - Len(depois_do_texto) + 1, Len(prompts[k]))
            = depois_do_texto
       /\ TextoDoPrompt(prompts[k]) = SubSeq(chunks[k].texto, 1, Len(TextoDoPrompt(prompts[k])))
       /\ Len(TextoDoPrompt(prompts[k])) <= limite_prompt

\* C30 witness: in a cloud run, a chunk longer than the limit and longer than
\* the local budget allows was sent cut to the limit, after a chunk that was
\* sent whole
C30_Witness ==
  /\ modo_divisao = "google"
  /\ Len(prompts) = 2
  /\ Len(chunks[1].texto) < limite_prompt
  /\ TextoDoPrompt(prompts[1]) = chunks[1].texto
  /\ Len(chunks[2].texto) > max_chars("local")
  /\ Len(TextoDoPrompt(prompts[2])) = limite_prompt
====
